---- MODULE Spec2Model ----
\* Transcription orchestration layer of the speech-to-text backend:
\*   GoogleSTTService        (google-stt-service.js, src/unnamed/part_001)
\*   WorkloadIdentityManager (src/unnamed/part_002 and the second copy
\*                            src/backend/auth/workload-identity-setup.js)
\*   speechConfig            (speech-config.js, src/unnamed/part_003)
\*
\* The service and the manager are async JavaScript: a call runs synchronously
\* up to its next `await`, where other requests may run.  Every process of the
\* model is one in-flight call chain; stack[p] holds the awaits it is suspended
\* at (innermost last), sig[p] says whether the innermost awaited promise is
\* still pending on the network or has settled, val[p] the settled value.
EXTENDS Integers, Naturals, Sequences, FiniteSets, TLC

\* ---------------------------------------------------------------- bounds
MaxCalls  == 3
MaxChecks == 4
MaxNow   == 60000
TickMs   == 30000
MaxStack == 8
MaxClicks == 5

Procs == {1, 2}

\* ------------------------------------------------------- speechConfig
\* Ceilings are scaled down (source: 60 per minute, 1000 per hour) keeping
\* rateLimitPerMinute < rateLimitPerHour; the windows keep their width.
rateLimitPerMinute == 2
rateLimitPerHour   == 3
MinuteWindowMs     == 60000
HourWindowMs       == 3600000
maxFileSize        == 10485760
maxAudioLength     == 300
sampleRateHertz    == 16000
supportedFormats   == {"webm", "wav", "mp3", "ogg"}

\* ----------------------------------------------------------- inputs
AudioLengths == {2097152, 9600000, 9600001, 10485760, 10485761}
\* Buffers for transcribeLongAudio: at the chunk threshold, one byte above it,
\* one byte above maxFileSize, and four times the threshold.
LongLengths  == {4194304, 4194305, 10485761, 16777216}
Formats      == {"webm", "WAV", "flac"}
ClientOpts   == {"a", "none"}
Builds       == {"part_002", "backend"}

Null == 0

\* String.prototype.toLowerCase on the format strings of the model.
toLowerCase(s) ==
  CASE s = "WAV"  -> "wav"
    [] s = "WEBM" -> "webm"
    [] s = "MP3"  -> "mp3"
    [] s = "OGG"  -> "ogg"
    [] OTHER      -> s

\* ------------------------------------------------------------ errors
\* An Error object: code (0 = no code property) and message, a sequence of
\* message pieces so that string concatenation is sequence concatenation.
Err(code, msg) == [ok |-> FALSE, code |-> code, msg |-> msg, v |-> Null]
Ok(v)          == [ok |-> TRUE, code |-> 0, msg |-> <<>>, v |-> v]

FILE_TOO_LARGE        == <<"FILE_TOO_LARGE">>
UNSUPPORTED_FORMAT    == <<"UNSUPPORTED_FORMAT">>
AUDIO_TOO_LONG        == <<"AUDIO_TOO_LONG">>
RATE_LIMIT_EXCEEDED   == <<"RATE_LIMIT_EXCEEDED">>
AUTHENTICATION_FAILED == <<"AUTHENTICATION_FAILED">>
TRANSCRIPTION_FAILED  == <<"TRANSCRIPTION_FAILED">>
NOT_INITIALIZED       == <<"WorkloadIdentityManager is not initialized. Call initialize() first.">>
WIM_INIT_FAILED       == <<"WIM_INIT_FAILED">>
TOKEN_FAILED          == <<"TOKEN_FAILED">>
CLIENT_FAILED         == <<"CLIENT_FAILED">>
PROJECT_FAILED        == <<"PROJECT_FAILED">>
REFRESH_FAILED        == <<"REFRESH_FAILED">>
SVC_INIT_FAILED       == <<"SVC_INIT_FAILED">>
NO_TOKEN              == <<"Failed to get access token">>
TYPE_ERROR            == <<"TypeError: Cannot read properties of null">>
NETWORK_DOWN          == <<"connect ECONNREFUSED">>
\* error.message of a thrown value that has no message property: no string.
undefined             == <<"(undefined)">>
\* What `undefined.includes(...)` throws.
INCLUDES_OF_UNDEFINED ==
  <<"TypeError: Cannot read properties of undefined (reading 'includes')">>

\* Pieces of the model's messages that contain the substring 'rate limit',
\* resp. 'quota' (the fixed messages of errorMessages contain neither).
RateLimitPieces == {"upstream rate limit reached"}
QuotaPieces     == {"quota exceeded for project"}

\* String.prototype.includes for the two needles the service looks for.
includes(msg, needle) ==
  \E i \in 1..Len(msg) :
    \/ needle = "rate limit" /\ msg[i] \in RateLimitPieces
    \/ needle = "quota"      /\ msg[i] \in QuotaPieces

\* ------------------------------------------------- validateAudioFile
\* estimatedDuration = length / (sampleRateHertz * 2) > maxAudioLength is a
\* floating-point comparison; over the integers it is the cross-multiplied one.
validateAudioFile_FormatFirst(len, format) ==
  IF toLowerCase(format) \notin supportedFormats THEN UNSUPPORTED_FORMAT
  ELSE IF len > maxFileSize THEN FILE_TOO_LARGE
  ELSE IF len > maxAudioLength * (sampleRateHertz * 2) THEN AUDIO_TOO_LONG
  ELSE <<>>

validateAudioFile(len, format) ==
  IF len > maxFileSize THEN FILE_TOO_LARGE
  ELSE IF toLowerCase(format) \notin supportedFormats THEN UNSUPPORTED_FORMAT
  ELSE IF len > maxAudioLength * (sampleRateHertz * 2) THEN AUDIO_TOO_LONG
  ELSE <<>>

\* ------------------------------------------------- getEncodingConfig
formatMap ==
  [webm |-> "WEBM_OPUS", wav |-> "LINEAR16", mp3 |-> "MP3", ogg |-> "OGG_OPUS"]

\* formatMap is an object literal, so formatMap[key] also finds the properties
\* it inherits from Object.prototype.  These are the inherited names written
\* in lower case only, the ones a lower-cased key can be equal to; their
\* values (a function, an object) are truthy.
InheritedKeys == {"constructor", "__proto__"}

\* return formatMap[format.toLowerCase()] || 'WEBM_OPUS'
getEncodingConfig(format) ==
  LET key == toLowerCase(format)
  IN  IF key \in DOMAIN formatMap THEN formatMap[key]
      ELSE IF key \in InheritedKeys THEN "Object.prototype." \o key
      ELSE "WEBM_OPUS"

\* Declared formats handed to getEncodingConfig directly.
EncodingFormats ==
  {"webm", "wav", "mp3", "ogg", "WAV", "MP3", "flac", "", "constructor"}

\* ----------------------------------------------------- checkRateLimit
\* requestCount is a Map: a function whose domain is the set of keys present.
\* A key without an entry reads the entry of some other key.
MapGet_Fallback(m, k) ==
  IF k \in DOMAIN m THEN m[k]
  ELSE IF DOMAIN m # {} THEN m[CHOOSE j \in DOMAIN m : TRUE]
  ELSE <<>>

MapGet(m, k) == IF k \in DOMAIN m THEN m[k] ELSE <<>>
MapSet(m, k, x) == [y \in (DOMAIN m) \cup {k} |-> IF y = k THEN x ELSE m[y]]

\* Window closed on the old side: an entry exactly 60 s old still counts.
RecentRequests_Closed(clientRequests, t) ==
  SelectSeq(clientRequests, LAMBDA time : t - time <= MinuteWindowMs)

\* clientRequests.filter(time => now - time < 60000)
RecentRequests(clientRequests, t) ==
  SelectSeq(clientRequests, LAMBDA time : t - time < MinuteWindowMs)

\* clientRequests.filter(time => now - time < 3600000)
HourlyRequests(clientRequests, t) ==
  SelectSeq(clientRequests, LAMBDA time : t - time < HourWindowMs)

\* Off by one: admits one request more than the ceiling.
MinuteLimitHit_Above(recentRequests) == Len(recentRequests) > rateLimitPerMinute

MinuteLimitHit(recentRequests) == Len(recentRequests) >= rateLimitPerMinute
HourLimitHit(hourlyRequests)   == Len(hourlyRequests) >= rateLimitPerHour

\* The whole history kept on acceptance: nothing is ever pruned.
RecordedRequests_KeepAll(clientRequests, t) == Append(clientRequests, t)

\* The list checkRateLimit stores on acceptance.
RecordedRequests(clientRequests, t) == Append(RecentRequests(clientRequests, t), t)

\* Record-before-reject: the instant is pushed before the ceilings are tested.
checkRateLimit_RecordFirst(m, clientId, t) ==
  LET clientRequests == MapGet(m, clientId)
      recentRequests == RecentRequests(clientRequests, t)
      recorded == MapSet(m, clientId, RecordedRequests(clientRequests, t))
  IN  IF MinuteLimitHit(recentRequests) THEN [ok |-> FALSE, map |-> recorded]
      ELSE [ok |-> TRUE, map |-> recorded]

\* Result of checkRateLimit(clientId) at instant t on the map m:
\* ok = FALSE is the thrown RATE_LIMIT_EXCEEDED, map is the map afterwards.
checkRateLimit(m, clientId, t) ==
  LET clientRequests == MapGet(m, clientId)
      recentRequests == RecentRequests(clientRequests, t)
      hourlyRequests == HourlyRequests(clientRequests, t)
  IN  IF MinuteLimitHit(recentRequests) THEN [ok |-> FALSE, map |-> m]
      ELSE IF HourLimitHit(hourlyRequests) THEN [ok |-> FALSE, map |-> m]
      ELSE [ok |-> TRUE, map |-> MapSet(m, clientId, RecordedRequests(clientRequests, t))]

\* options.clientId || 'default'
ClientKey(opt) == IF opt = "none" THEN "default" ELSE opt

\* ------------------------------------------------- transcribeLongAudio: chunks
maxChunkSize == 4194304
PacingDelayMs == 1000

\* The slicing loop: for (i = 0; i < len; i += maxChunkSize)
\* chunks.push(audioBuffer.slice(i, i + maxChunkSize)).  A chunk is the byte
\* range [from, to) of the buffer it is a slice of; slice() stops at the end
\* of the buffer.
RECURSIVE SliceLoop_Unclamped(_, _)
RECURSIVE SliceLoop(_, _)
\* slice() taken as always maxChunkSize long, beyond the end of the buffer.
SliceLoop_Unclamped(len, i) ==
  IF i < len
  THEN <<[from |-> i, to |-> i + maxChunkSize]>>
         \o SliceLoop_Unclamped(len, i + maxChunkSize)
  ELSE << >>

SliceLoop(len, i) ==
  IF i < len
  THEN <<[from |-> i,
          to |-> IF i + maxChunkSize > len THEN len ELSE i + maxChunkSize]>>
         \o SliceLoop(len, i + maxChunkSize)
  ELSE << >>

Chunks(len) == SliceLoop(len, 0)

\* chunks.length
NumChunks(len) == Len(Chunks(len))

\* chunks[i].length
ChunkLength(len, i) == Chunks(len)[i + 1].to - Chunks(len)[i + 1].from

\* `${options.clientId || 'default'}_chunk_${i}`
ChunkKey(opt, i) == ClientKey(opt) \o "_chunk_" \o ToString(i)


\* ================================================================ state
VARIABLES
  build,         \* which copy of workload-identity-setup.js is loaded
  now,           \* Date.now()
  requestCount,  \* GoogleSTTService.requestCount
  svc,           \* GoogleSTTService: speechClient, initialized
  wim,           \* WorkloadIdentityManager: auth, client, initialized
  stack,         \* per call chain: the awaits it is suspended at
  sig,           \* per call chain: "idle" | "pending" | "ok" | "err"
  val,           \* per call chain: settled value or error
  req,           \* per call chain: the top-level call and its locals
  accepted,      \* history: every instant checkRateLimit accepted, per key
  rejects,       \* history: number of rejections by checkRateLimit, per key
  lastCheck,     \* history: the latest checkRateLimit call
  g,             \* history: counters of calls and network traffic
  gw,            \* the client's STTApiService: one transcribeAudioFile call
  rateLimitMap,  \* stt-routes.js: per-IP history of the rateLimit middleware
  hook           \* the client's useAndroidVoiceRecognition hook and its recorder

vars == <<build, now, requestCount, svc, wim, stack, sig, val, req,
          accepted, rejects, lastCheck, g, gw, rateLimitMap, hook>>

\* The state as one record, so that the synchronous part of a call (which may
\* enter several nested async functions) is a composition of functions.
Cur ==
  [build |-> build, now |-> now, requestCount |-> requestCount, svc |-> svc,
   wim |-> wim, stack |-> stack, sig |-> sig, val |-> val, req |-> req,
   accepted |-> accepted, rejects |-> rejects, lastCheck |-> lastCheck, g |-> g,
   gw |-> gw, rateLimitMap |-> rateLimitMap, hook |-> hook]

Becomes(T) ==
  /\ build' = T.build
  /\ now' = T.now
  /\ requestCount' = T.requestCount
  /\ svc' = T.svc
  /\ wim' = T.wim
  /\ stack' = T.stack
  /\ sig' = T.sig
  /\ val' = T.val
  /\ req' = T.req
  /\ accepted' = T.accepted
  /\ rejects' = T.rejects
  /\ lastCheck' = T.lastCheck
  /\ g' = T.g
  /\ gw' = T.gw
  /\ rateLimitMap' = T.rateLimitMap
  /\ hook' = T.hook

Keys ==
  {ClientKey(c) : c \in ClientOpts}
  \cup {ChunkKey(c, i) : c \in ClientOpts,
                         i \in UNION {0..(NumChunks(l) - 1) : l \in LongLengths}}

NoReq == [op |-> "none", len |-> 0, fmt |-> "webm", client |-> "none",
          startTime |-> 0, authClient |-> Null, cold |-> FALSE,
          encoding |-> "",
          rejectedBy |-> "none", thrown |-> Ok(Null),
          \* transcribeLongAudio: the whole buffer and the caller's options,
          \* the loop index, results, totalProcessingTime, the pacing timer
          audioLength |-> 0, clientId |-> "none", i |-> 0, results |-> << >>,
          totalProcessingTime |-> 0, due |-> 0,
          \* history of this call: buffers handed to speechClient.recognize,
          \* chunk events, the recognizer's last rejection
          sent |-> << >>, trace |-> << >>, remote |-> Ok(Null),
          \* history: whether each response of the recognizer had results,
          \* and the results transcribeAudio returned in this call
          heard |-> << >>, returned |-> << >>,
          \* history: the error the latest transcribeAudio left with
          threw |-> Ok(Null),
          \* the HTTP response of a route handler: status 0 = none sent yet
          res |-> [status |-> 0, body |-> [success |-> FALSE]],
          \* history: the latest call of validateAudioFile and what it gave
          checked |-> [set |-> FALSE, len |-> 0, fmt |-> "webm", out |-> <<>>]]

\* The hook after its first render and effect: nothing recorded, no callback
\* pending.  recordings are the AudioRecording objects created so far (the
\* ref currentRecording is an index into them, 0 = null), inflight the
\* recordings whose audio is with sttApiService.transcribeAudioFile.
PLACEHOLDER == "transcribing..."
NoHook ==
  [isRecording |-> FALSE, isProcessing |-> FALSE, transcript |-> "",
   error |-> "", currentRecording |-> 0,
   starting |-> 0, audioChunks |-> FALSE,
   recordings |-> << >>, inflight |-> {}, clicks |-> 0]

\* STTApiService before any call: no fetch outstanding, no timer armed.
NoGateway ==
  [phase |-> "idle", attempt |-> 0, startedAt |-> 0, due |-> 0, calls |-> 0,
   outcome |-> [kind |-> "none", status |-> 0, body |-> "",
                error |-> [name |-> "", message |-> ""]],
   caller |-> [kind |-> "none", error |-> [name |-> "", message |-> ""]],
   \* history of the call: fetches issued, responses, failures, waits
   log |-> << >>]

Init ==
  /\ build \in Builds
  /\ now = 0
  /\ requestCount = << >>
  /\ svc = [speechClient |-> Null, initialized |-> FALSE]
  /\ wim = [auth |-> Null, client |-> Null, initialized |-> FALSE]
  /\ stack = [p \in Procs |-> << >>]
  /\ sig = [p \in Procs |-> "idle"]
  /\ val = [p \in Procs |-> Ok(Null)]
  /\ req = [p \in Procs |-> NoReq]
  /\ accepted = [k \in Keys |-> << >>]
  /\ rejects = [k \in Keys |-> 0]
  /\ lastCheck = [n |-> 0, key |-> "default", at |-> 0, ok |-> TRUE]
  /\ g = [calls |-> 0, checks |-> 0, getClientCalls |-> 0, clientCount |-> 0,
          initCalled |-> FALSE, anyFailure |-> FALSE, probeOk |-> FALSE,
          refreshCalled |-> FALSE, caller |-> 1]
  /\ gw = NoGateway
  /\ rateLimitMap = << >>
  /\ hook = NoHook

\* ------------------------------------------------ awaits and settlements
Top(S, p) == S.stack[p][Len(S.stack[p])]
Push(S, p, l) == [S EXCEPT !.stack[p] = Append(@, l)]
Pop(S, p) == [S EXCEPT !.stack[p] = SubSeq(@, 1, Len(@) - 1)]

\* `await <network call>` at label l: the call is issued, the chain suspends.
AwaitNet(S, p, l) ==
  [Push(S, p, l) EXCEPT !.sig[p] = "pending"]

\* The running async function returns x / throws e: its promise settles and
\* the await below it on the stack (or the top-level caller) will see it.
Return(S, p, x) == [S EXCEPT !.sig[p] = "ok", !.val[p] = Ok(x)]
Throw(S, p, e)  == [S EXCEPT !.sig[p] = "err", !.val[p] = e]


\* ============================================== WorkloadIdentityManager
\* S is the state, p the call chain that runs.  A definition named after a
\* method is the synchronous part of the method from its entry to its first
\* await; a definition named <method>_<point> resumes the method after the
\* await at that point with the settled promise (ok, r).

isAuthenticated(S) == S.wim.initialized /\ S.wim.client # Null

\* The already-initialized guard is missing: every call handshakes again.
Wim_initialize_NoGuard(S, p) ==
  LET S0 == [S EXCEPT !.g.initCalled = TRUE]
      S1 == [S0 EXCEPT !.wim.auth = S0.g.getClientCalls + 1,
                       !.g.getClientCalls = @ + 1]
  IN  AwaitNet(S1, p, "wi_getClient")

Wim_initialize(S, p) ==
  LET S0 == [S EXCEPT !.g.initCalled = TRUE]
  IN  IF S0.build = "part_002" /\ S0.wim.initialized
      THEN Return(S0, p, Null)
      ELSE LET S1 == [S0 EXCEPT !.wim.auth = S0.g.getClientCalls + 1,
                                !.g.getClientCalls = @ + 1]
           IN  AwaitNet(S1, p, "wi_getClient")

\* const projectId = await this.auth.getProjectId()
Wim_testAuthentication(S, p) ==
  IF S.wim.auth = Null THEN Throw(S, p, Err(0, TYPE_ERROR))
  ELSE AwaitNet(S, p, "ta_getProjectId")

Wim_initialize_gotClient(S, p, ok, r) ==
  IF ~ok THEN Throw(S, p, Err(0, WIM_INIT_FAILED))
  ELSE LET S1 == [S EXCEPT !.g.clientCount = @ + 1,
                           !.wim.client = S.g.clientCount + 1,
                           !.wim.initialized =
                              IF S.build = "part_002" THEN TRUE ELSE @]
       IN  Wim_testAuthentication(Push(S1, p, "wi_test"), p)

Wim_initialize_tested(S, p, ok, r) ==
  IF ~ok THEN Throw(S, p, Err(0, WIM_INIT_FAILED))
  ELSE IF S.build = "part_002" THEN Return(S, p, Null)
  ELSE Return([S EXCEPT !.wim.initialized = TRUE], p, Null)

\* await this.client.getAccessToken() inside the try of getAccessToken
Wim_clientGetAccessToken(S, p) ==
  IF S.wim.client = Null THEN Throw(S, p, Err(0, TOKEN_FAILED))
  ELSE AwaitNet(S, p, "gat_token")

Wim_getAccessToken(S, p) ==
  IF S.wim.initialized THEN Wim_clientGetAccessToken(S, p)
  ELSE IF S.build = "part_002" THEN Throw(S, p, Err(0, NOT_INITIALIZED))
  ELSE Wim_initialize(Push(S, p, "gat_init"), p)

Wim_getAccessToken_initialized(S, p, ok, r) ==
  IF ~ok THEN Throw(S, p, Err(0, TOKEN_FAILED))
  ELSE Wim_clientGetAccessToken(S, p)

Wim_getAccessToken_gotToken(S, p, ok, r) ==
  IF ~ok THEN Throw(S, p, Err(0, TOKEN_FAILED))
  ELSE Return(S, p, r.v)

Wim_testAuthentication_gotProjectId(S, p, ok, r) ==
  IF ~ok THEN Throw(S, p, r)
  ELSE Wim_getAccessToken(Push(S, p, "ta_getToken"), p)

Wim_testAuthentication_gotToken(S, p, ok, r) ==
  IF ~ok THEN Throw(S, p, r)
  ELSE IF r.v = Null THEN Throw(S, p, Err(0, NO_TOKEN))
  ELSE Return([S EXCEPT !.g.probeOk = TRUE], p, Null)

Wim_getAuthenticatedClient(S, p) ==
  IF S.wim.initialized THEN Return(S, p, S.wim.client)
  ELSE IF S.build = "part_002" THEN Throw(S, p, Err(0, NOT_INITIALIZED))
  ELSE Wim_initialize(Push(S, p, "gac_init"), p)

Wim_getAuthenticatedClient_initialized(S, p, ok, r) ==
  IF ~ok THEN Throw(S, p, Err(0, CLIENT_FAILED))
  ELSE Return(S, p, S.wim.client)

\* return await this.auth.getProjectId()
Wim_authGetProjectId(S, p) ==
  IF S.wim.auth = Null
  THEN Throw(S, p, Err(0, IF S.build = "part_002" THEN TYPE_ERROR ELSE PROJECT_FAILED))
  ELSE AwaitNet(S, p, "gp_net")

Wim_getProjectId(S, p) ==
  IF S.wim.initialized THEN Wim_authGetProjectId(S, p)
  ELSE IF S.build = "part_002" THEN Throw(S, p, Err(0, NOT_INITIALIZED))
  ELSE Wim_initialize(Push(S, p, "gp_init"), p)

Wim_getProjectId_initialized(S, p, ok, r) ==
  IF ~ok THEN Throw(S, p, Err(0, PROJECT_FAILED))
  ELSE Wim_authGetProjectId(S, p)

Wim_getProjectId_got(S, p, ok, r) ==
  IF ok THEN Return(S, p, r.v)
  ELSE IF S.build = "part_002" THEN Throw(S, p, r)
  ELSE Throw(S, p, Err(0, PROJECT_FAILED))

\* refreshAuthentication dropping the client but leaving initialized set.
Wim_refreshAuthentication_KeepInitialized(S, p) ==
  LET S1 == [S EXCEPT !.wim.client = Null,
                      !.g.refreshCalled = TRUE]
  IN  IF S.build = "part_002" THEN Throw(S1, p, Err(0, REFRESH_FAILED))
      ELSE Wim_initialize(Push(S1, p, "rf_init"), p)

\* part_002 line 118 reads the undeclared identifier `tiis`: a ReferenceError
\* inside the try, caught and rethrown as the refresh failure.
Wim_refreshAuthentication(S, p) ==
  LET S1 == [S EXCEPT !.wim.initialized = FALSE, !.wim.client = Null,
                      !.g.refreshCalled = TRUE]
  IN  IF S.build = "part_002" THEN Throw(S1, p, Err(0, REFRESH_FAILED))
      ELSE Wim_initialize(Push(S1, p, "rf_init"), p)

Wim_refreshAuthentication_initialized(S, p, ok, r) ==
  IF ~ok THEN Throw(S, p, Err(0, REFRESH_FAILED))
  ELSE Return(S, p, Null)


\* ===================================================== GoogleSTTService
Stt_initialize(S, p) == Wim_initialize(Push(S, p, "si_wimInit"), p)

Stt_initialize_wimReady(S, p, ok, r) ==
  IF ~ok THEN Throw(S, p, Err(0, SVC_INIT_FAILED))
  ELSE Wim_getAuthenticatedClient(Push(S, p, "si_client"), p)

Stt_initialize_gotClient(S, p, ok, r) ==
  IF ~ok THEN Throw(S, p, Err(0, SVC_INIT_FAILED))
  ELSE Wim_getProjectId(
         Push([S EXCEPT !.req[p].authClient = r.v], p, "si_project"), p)

Stt_initialize_gotProjectId(S, p, ok, r) ==
  IF ~ok THEN Throw(S, p, Err(0, SVC_INIT_FAILED))
  ELSE Return([S EXCEPT !.svc.speechClient = S.req[p].authClient,
                        !.svc.initialized = TRUE], p, Null)

\* One call of checkRateLimit(key) at S.now, with the history the properties
\* are stated over.
RateCheck(S, key) ==
  LET c == checkRateLimit(S.requestCount, key, S.now)
  IN  [S EXCEPT !.requestCount = c.map,
                !.accepted[key] = IF c.ok THEN Append(@, S.now) ELSE @,
                !.rejects[key] = IF c.ok THEN @ ELSE @ + 1,
                !.lastCheck = [n |-> S.lastCheck.n + 1, key |-> key,
                               at |-> S.now, ok |-> c.ok]]

\* The catch block with the message tests before the code tests.
MapError_MessageFirst(error) ==
  IF error.msg = undefined /\ error.code \notin {3, 8, 16}
  THEN Err(0, INCLUDES_OF_UNDEFINED)
  ELSE IF error.msg # undefined
          /\ (includes(error.msg, "rate limit") \/ includes(error.msg, "quota"))
       THEN Err(0, RATE_LIMIT_EXCEEDED)
  ELSE IF error.code = 3 THEN Err(0, UNSUPPORTED_FORMAT)
  ELSE IF error.code = 8 THEN Err(0, RATE_LIMIT_EXCEEDED)
  ELSE IF error.code = 16 THEN Err(0, AUTHENTICATION_FAILED)
  ELSE Err(0, TRANSCRIPTION_FAILED \o <<": ">> \o error.msg)

\* The catch block of transcribeAudio.  `error.message.includes(...)` on a
\* thrown value without a message throws a TypeError out of the catch.
MapError(error) ==
  IF error.code = 3 THEN Err(0, UNSUPPORTED_FORMAT)
  ELSE IF error.code = 8 THEN Err(0, RATE_LIMIT_EXCEEDED)
  ELSE IF error.code = 16 THEN Err(0, AUTHENTICATION_FAILED)
  ELSE IF error.msg = undefined THEN Err(0, INCLUDES_OF_UNDEFINED)
  ELSE IF includes(error.msg, "rate limit") \/ includes(error.msg, "quota")
       THEN Err(0, RATE_LIMIT_EXCEEDED)
  ELSE Err(0, TRANSCRIPTION_FAILED \o <<": ">> \o error.msg)

\* The catch block taking the caller's latest instant back when the request
\* failed after it had been handed to the recognizer.
transcribeAudio_catch_Rollback(S, p, error) ==
  LET k == ClientKey(S.req[p].client)
      h == MapGet(S.requestCount, k)
      S0 == IF S.req[p].sent # << >> /\ h # << >>
            THEN [S EXCEPT !.requestCount = MapSet(@, k, SubSeq(h, 1, Len(h) - 1))]
            ELSE S
  IN  Throw([S0 EXCEPT !.req[p].threw = MapError(error)], p, MapError(error))

transcribeAudio_catch(S, p, error) ==
  Throw([S EXCEPT !.req[p].threw = MapError(error)], p, MapError(error))

\* transcribeAudio_body with the rate-limit check made before the validation.
transcribeAudio_body_CheckFirst(S, p) ==
  LET bad == validateAudioFile(S.req[p].len, S.req[p].fmt)
      S0  == [S EXCEPT !.req[p].startTime = S.now,
                       !.req[p].checked = [set |-> TRUE, len |-> S.req[p].len,
                                           fmt |-> S.req[p].fmt, out |-> bad]]
      S1  == RateCheck(S0, ClientKey(S0.req[p].client))
  IN  IF ~S1.lastCheck.ok
      THEN transcribeAudio_catch(
             [S1 EXCEPT !.req[p].rejectedBy = "limiter",
                        !.req[p].thrown = Err(0, RATE_LIMIT_EXCEEDED)],
             p, Err(0, RATE_LIMIT_EXCEEDED))
      ELSE IF bad # <<>>
      THEN transcribeAudio_catch(
             [S1 EXCEPT !.req[p].rejectedBy = "validator",
                        !.req[p].thrown = Err(0, bad)], p, Err(0, bad))
      ELSE IF S1.svc.speechClient = Null
      THEN transcribeAudio_catch(S1, p, Err(0, TYPE_ERROR))
      ELSE AwaitNet([S1 EXCEPT !.req[p].sent = Append(@, S1.req[p].len),
                               !.req[p].encoding =
                                  getEncodingConfig(S1.req[p].fmt)],
                    p, "tr_recognize")

\* transcribeAudio_body with the recognizer called whatever the validator and
\* the limiter said.
transcribeAudio_body_NoFailFast(S, p) ==
  LET S0  == [S EXCEPT !.req[p].startTime = S.now]
      bad == validateAudioFile(S0.req[p].len, S0.req[p].fmt)
      S1  == RateCheck(S0, ClientKey(S0.req[p].client))
      S2  == [S1 EXCEPT
                !.req[p].rejectedBy =
                   IF bad # <<>> THEN "validator"
                   ELSE IF ~S1.lastCheck.ok THEN "limiter" ELSE @,
                !.req[p].sent = Append(@, S1.req[p].len)]
  IN  IF S1.svc.speechClient = Null
      THEN transcribeAudio_catch(S1, p, Err(0, TYPE_ERROR))
      ELSE AwaitNet(S2, p, "tr_recognize")

\* transcribeAudio from `const startTime` to `await speechClient.recognize`.
transcribeAudio_body(S, p) ==
  LET bad == validateAudioFile(S.req[p].len, S.req[p].fmt)
      S0  == [S EXCEPT !.req[p].startTime = S.now,
                       !.req[p].checked = [set |-> TRUE, len |-> S.req[p].len,
                                           fmt |-> S.req[p].fmt, out |-> bad]]
      S1  == RateCheck(S0, ClientKey(S0.req[p].client))
  IN  IF bad # <<>>
      THEN transcribeAudio_catch(
             [S0 EXCEPT !.req[p].rejectedBy = "validator",
                        !.req[p].thrown = Err(0, bad)], p, Err(0, bad))
      ELSE IF ~S1.lastCheck.ok
      THEN transcribeAudio_catch(
             [S1 EXCEPT !.req[p].rejectedBy = "limiter",
                        !.req[p].thrown = Err(0, RATE_LIMIT_EXCEEDED)],
             p, Err(0, RATE_LIMIT_EXCEEDED))
      ELSE IF S1.svc.speechClient = Null
      THEN transcribeAudio_catch(S1, p, Err(0, TYPE_ERROR))
      ELSE AwaitNet([S1 EXCEPT !.req[p].sent = Append(@, S1.req[p].len),
                               !.req[p].encoding =
                                  getEncodingConfig(S1.req[p].fmt)],
                    p, "tr_recognize")

transcribeAudio(S, p) ==
  IF ~S.svc.initialized
  THEN Stt_initialize(Push([S EXCEPT !.req[p].cold = TRUE], p, "tr_init"), p)
  ELSE transcribeAudio_body(S, p)

transcribeAudio_initialized(S, p, ok, r) ==
  IF ~ok THEN transcribeAudio_catch(S, p, r)
  ELSE transcribeAudio_body(S, p)

\* parseFloat(t.seconds || 0) + (t.nanos || 0) / 1e9, kept in nanoseconds.
\* A missing time (word.startTime falsy) is the record with set = FALSE.
WordTime(t) == IF ~t.set THEN 0 ELSE t.seconds * 1000000000 + t.nanos

\* bestResult.alternatives.slice(1, 3)
Slice13(alts) == SubSeq(alts, 2, IF Len(alts) < 3 THEN Len(alts) ELSE 3)

\* !response.results || response.results.length === 0
NoResults(response) ==
  "results" \notin DOMAIN response \/ Len(response.results) = 0

RecognitionResult(S, p, response) ==
  IF NoResults(response)
  THEN [success |-> TRUE, transcription |-> "", confidence |-> 0,
        processingTime |-> S.now - S.req[p].startTime,
        alternatives |-> <<>>, wordDetails |-> <<>>]
  ELSE LET bestResult == response.results[1]
           bestAlternative == bestResult.alternatives[1]
           rest == Slice13(bestResult.alternatives)
       IN  [success |-> TRUE,
            transcription |-> bestAlternative.transcript,
            confidence |-> bestAlternative.confidence,
            processingTime |-> S.now - S.req[p].startTime,
            alternatives |->
              [i \in 1..Len(rest) |-> [transcript |-> rest[i].transcript,
                                       confidence |-> rest[i].confidence]],
            wordDetails |->
              [i \in 1..Len(bestAlternative.words) |->
                 [word |-> bestAlternative.words[i].word,
                  startTime |-> WordTime(bestAlternative.words[i].startTime),
                  endTime |-> WordTime(bestAlternative.words[i].endTime),
                  confidence |-> bestAlternative.words[i].confidence]]]

\* The response of the recognizer, or its rejection, as the call's history.
Heard(S, p, ok, r) ==
  IF ~ok THEN [S EXCEPT !.req[p].remote = r]
  ELSE [S EXCEPT
          !.req[p].heard =
             Append(@, IF NoResults(r.v) THEN "no results" ELSE "results"),
          !.req[p].returned = Append(@, RecognitionResult(S, p, r.v))]

\* transcribeAudio calling the recognizer a second time after it answered
\* unauthenticated.
transcribeAudio_recognized_RetryUnauthenticated(S, p, ok, r) ==
  IF ~ok /\ r.code = 16 /\ Len(S.req[p].sent) < 2
  THEN AwaitNet([Heard(S, p, ok, r) EXCEPT
                   !.req[p].sent = Append(@, S.req[p].len)], p, "tr_recognize")
  ELSE IF ~ok THEN transcribeAudio_catch(Heard(S, p, ok, r), p, r)
  ELSE Return(Heard(S, p, ok, r), p, RecognitionResult(S, p, r.v))

\* transcribeAudio treating a response without results as a failure.
transcribeAudio_recognized_EmptyThrows(S, p, ok, r) ==
  IF ~ok THEN transcribeAudio_catch(Heard(S, p, ok, r), p, r)
  ELSE IF NoResults(r.v)
  THEN transcribeAudio_catch(Heard(S, p, ok, r), p, Err(0, <<"no results">>))
  ELSE Return(Heard(S, p, ok, r), p, RecognitionResult(S, p, r.v))

transcribeAudio_recognized(S, p, ok, r) ==
  IF ~ok THEN transcribeAudio_catch(Heard(S, p, ok, r), p, r)
  ELSE Return(Heard(S, p, ok, r), p, RecognitionResult(S, p, r.v))

\* ------------------------------------------------- transcribeLongAudio
\* `await new Promise(resolve => setTimeout(resolve, ms))` at label l.
AwaitTimer(S, p, l, ms) ==
  [Push(S, p, l) EXCEPT !.sig[p] = "pending", !.req[p].due = S.now + ms]

Event(e, i, at, text) == [e |-> e, i |-> i, at |-> at, text |-> text]

\* One turn of the chunk loop: `await this.transcribeAudio(chunks[i], format,
\* {...options, clientId: `${options.clientId || 'default'}_chunk_${i}`})`.
\* The chunk loop passing the caller's own clientId on: every chunk is checked
\* under the caller's base key.
transcribeLongAudio_chunk_BaseKey(S, p) ==
  LET i  == S.req[p].i
      S0 == [S EXCEPT
               !.req[p].len = ChunkLength(S.req[p].audioLength, i),
               !.req[p].client = S.req[p].clientId,
               !.req[p].trace = Append(@, Event("start", i, S.now, ""))]
  IN  transcribeAudio(Push(S0, p, "tl_chunk"), p)

transcribeLongAudio_chunk(S, p) ==
  LET i  == S.req[p].i
      S0 == [S EXCEPT
               !.req[p].len = ChunkLength(S.req[p].audioLength, i),
               !.req[p].client = ChunkKey(S.req[p].clientId, i),
               !.req[p].trace = Append(@, Event("start", i, S.now, ""))]
  IN  transcribeAudio(Push(S0, p, "tl_chunk"), p)

\* results.map(r => r.transcription).filter(t => t.length > 0).join(' ')
RECURSIVE combinedTranscription_NoFilter(_)
RECURSIVE combinedTranscription(_)
combinedTranscription_NoFilter(results) ==
  IF results = << >> THEN ""
  ELSE IF Len(results) = 1 THEN results[1].transcription
  ELSE results[1].transcription \o " "
         \o combinedTranscription_NoFilter(Tail(results))

combinedTranscription(results) ==
  LET kept == SelectSeq(results, LAMBDA r : r.transcription # "")
  IN  IF kept = << >> THEN ""
      ELSE IF Len(kept) = 1 THEN kept[1].transcription
      ELSE kept[1].transcription \o " " \o combinedTranscription(Tail(kept))

\* results.reduce((sum, r) => sum + r.confidence, 0)
RECURSIVE SumConfidence(_)
SumConfidence(results) ==
  IF results = << >> THEN 0
  ELSE results[1].confidence + SumConfidence(Tail(results))

\* The merged result; averageConfidence is the exact quotient sum / n, kept as
\* the pair (sum, n).
\* The mean taken over the chunks that produced text only.
MergedResult_NonEmptyDivisor(S, p) ==
  LET results == S.req[p].results
  IN  [success |-> TRUE,
       transcription |-> combinedTranscription(results),
       confidence |->
         [sum |-> SumConfidence(results),
          n |-> Len(SelectSeq(results, LAMBDA r : r.transcription # ""))],
       processingTime |-> S.req[p].totalProcessingTime,
       chunks |-> Len(results),
       alternatives |-> << >>, wordDetails |-> << >>]

MergedResult(S, p) ==
  LET results == S.req[p].results
  IN  [success |-> TRUE,
       transcription |-> combinedTranscription(results),
       confidence |-> [sum |-> SumConfidence(results), n |-> Len(results)],
       processingTime |-> S.req[p].totalProcessingTime,
       chunks |-> Len(results),
       alternatives |-> << >>, wordDetails |-> << >>]

transcribeLongAudio(S, p) ==
  IF S.req[p].audioLength <= maxChunkSize
  THEN transcribeAudio(
         Push([S EXCEPT !.req[p].trace = Append(@, Event("whole", 0, S.now, ""))],
              p, "tl_whole"), p)
  ELSE transcribeLongAudio_chunk([S EXCEPT !.req[p].i = 0], p)

\* `return await this.transcribeAudio(audioBuffer, format, options)`
transcribeLongAudio_whole(S, p, ok, r) ==
  IF ~ok THEN Throw(S, p, r)
  ELSE Return([S EXCEPT !.req[p].trace =
                          Append(@, Event("end", 0, S.now, r.v.transcription))],
              p, r.v)

\* The loop body after a chunk's result arrived: push it, add its time, wait
\* for the pacing delay unless it was the last chunk, else merge and return.
ChunkPushed(S, p, chunkResult) ==
  [S EXCEPT
     !.req[p].results = Append(@, chunkResult),
     !.req[p].totalProcessingTime = @ + chunkResult.processingTime,
     !.req[p].trace =
       Append(@, Event("end", S.req[p].i, S.now, chunkResult.transcription))]

ChunkDone(S, p, chunkResult) ==
  LET i  == S.req[p].i
      n  == NumChunks(S.req[p].audioLength)
      S0 == ChunkPushed(S, p, chunkResult)
  IN  IF i < n - 1
      THEN AwaitTimer(
             [S0 EXCEPT !.req[p].trace =
                          Append(@, Event("delay", i, S.now, ""))],
             p, "tl_delay", PacingDelayMs)
      ELSE Return(S0, p, MergedResult(S0, p))

ChunkFailed(S, p) ==
  [S EXCEPT !.req[p].trace = Append(@, Event("failed", S.req[p].i, S.now, ""))]

\* transcribeLongAudio_chunked without the pacing delay: the next chunk is
\* started as soon as the previous one has returned.
transcribeLongAudio_chunked_NoDelay(S, p, ok, r) ==
  LET S0 == ChunkPushed(S, p, r.v)
  IN  IF ~ok THEN Throw(ChunkFailed(S, p), p, r)
      ELSE IF S.req[p].i < NumChunks(S.req[p].audioLength) - 1
      THEN transcribeLongAudio_chunk([S0 EXCEPT !.req[p].i = @ + 1], p)
      ELSE Return(S0, p, MergedResult(S0, p))

\* transcribeLongAudio_chunked with a failed chunk skipped: the loop goes on
\* and the chunks that succeeded are merged.
transcribeLongAudio_chunked_SkipFailed(S, p, ok, r) ==
  IF ~ok
  THEN ChunkDone(ChunkFailed(S, p), p,
                 [success |-> TRUE, transcription |-> "", confidence |-> 0,
                  processingTime |-> 0, alternatives |-> <<>>,
                  wordDetails |-> <<>>])
  ELSE ChunkDone(S, p, r.v)

\* The loop body after `await this.transcribeAudio(chunks[i], ...)`; a
\* rejection goes to the catch, which rethrows it.
transcribeLongAudio_chunked(S, p, ok, r) ==
  IF ~ok THEN Throw(ChunkFailed(S, p), p, r)
  ELSE ChunkDone(S, p, r.v)

\* The pacing delay has elapsed: i++ and the next turn of the loop.
transcribeLongAudio_paced(S, p, ok, r) ==
  transcribeLongAudio_chunk(
    [S EXCEPT !.req[p].trace = Append(@, Event("elapsed", S.req[p].i, S.now, "")),
              !.req[p].i = @ + 1], p)

\* ------------------------------------------- healthCheck and getStats
\* GoogleSTTService.healthCheck: an async function without an await; the
\* object it resolves with.  isAuthenticated() cannot throw.
Stt_healthCheck(S) ==
  IF ~S.svc.initialized THEN [status |-> "not_initialized"]
  ELSE [status |-> "healthy", authenticated |-> isAuthenticated(S),
        initialized |-> S.svc.initialized, timestamp |-> S.now]

\* Array.from(requestCount.values()).reduce((sum, r) => sum + r.length, 0)
RECURSIVE TotalLength(_, _)
TotalLength(m, keys) ==
  IF keys = {} THEN 0
  ELSE LET k == CHOOSE x \in keys : TRUE
       IN  Len(m[k]) + TotalLength(m, keys \ {k})

\* GoogleSTTService.getStats (process.uptime() left out).
getStats(S) ==
  [totalRequests |-> TotalLength(S.requestCount, DOMAIN S.requestCount),
   activeClients |-> Cardinality(DOMAIN S.requestCount),
   initialized |-> S.svc.initialized]

\* ============================================ stt-routes and STTController
NO_FILE            == <<"NO_FILE">>
NO_AUDIO_DATA      == <<"NO_AUDIO_DATA">>
ROUTE_RATE_LIMITED == <<"ROUTE_RATE_LIMITED">>
SERVER_ERROR       == <<"SERVER_ERROR">>
LongAudioThreshold == 4194304

\* res.status(status).json(body): the handler has answered and returns.
Respond(S, p, status, body) ==
  Return([S EXCEPT !.req[p].res = [status |-> status, body |-> body]], p, Null)

\* The middleware pushing the instant before it tests the ceiling.
rateLimit_RecordFirst(m, clientId, t) ==
  LET m0 == IF clientId \in DOMAIN m THEN m ELSE MapSet(m, clientId, << >>)
      requests == m0[clientId]
      recentRequests == SelectSeq(requests, LAMBDA time : t - time < 60000)
      m1 == MapSet(m0, clientId, Append(recentRequests, t))
  IN  IF Len(recentRequests) >= rateLimitPerMinute
      THEN [ok |-> FALSE, map |-> m1]
      ELSE [ok |-> TRUE, map |-> m1]

\* The rateLimit middleware for req.ip = clientId at instant t on the map m:
\* ok = FALSE is the 429 answer, map is rateLimitMap afterwards.
rateLimit(m, clientId, t) ==
  LET m0 == IF clientId \in DOMAIN m THEN m ELSE MapSet(m, clientId, << >>)
      requests == m0[clientId]
      recentRequests == SelectSeq(requests, LAMBDA time : t - time < 60000)
  IN  IF Len(recentRequests) >= rateLimitPerMinute
      THEN [ok |-> FALSE, map |-> m0]
      ELSE [ok |-> TRUE,
            map |-> MapSet(m0, clientId, Append(recentRequests, t))]

\* STTController.errorHandler, the router's error middleware; code is the
\* error's code property ("" when it has none).
errorHandler(S, p, code, message) ==
  IF code = "LIMIT_FILE_SIZE"
  THEN Respond(S, p, 400, [success |-> FALSE, error |-> FILE_TOO_LARGE])
  ELSE Respond(S, p, 500,
               [success |-> FALSE,
                error |-> IF message = << >> THEN SERVER_ERROR ELSE message])

\* The catch block of transcribeAudio and of transcribeBase64Audio:
\* error.message || errorMessages.TRANSCRIPTION_FAILED
Controller_catch(S, p, error) ==
  Respond(S, p, 500,
          [success |-> FALSE,
           error |-> IF error.msg = undefined \/ error.msg = << >>
                     THEN TRANSCRIPTION_FAILED ELSE error.msg])

\* req.ip || 'unknown'
ControllerClientId(ip) == IF ip = "none" THEN "unknown" ELSE ip

\* STTController.transcribeAudio up to its await; the request's buffer,
\* format and ip are in req[p].
Controller_transcribeAudio(S, p, hasFile) ==
  LET S0 == [S EXCEPT !.req[p].client = ControllerClientId(@),
                      !.req[p].clientId = ControllerClientId(@)]
  IN  IF ~hasFile
      THEN Respond(S, p, 400, [success |-> FALSE, error |-> NO_FILE])
      ELSE IF S.req[p].len > LongAudioThreshold
      THEN transcribeLongAudio(Push(S0, p, "ct_result"), p)
      ELSE transcribeAudio(Push(S0, p, "ct_result"), p)

\* After `result = await googleSTTService.transcribe...`: res.json or catch.
Controller_transcribeAudio_result(S, p, ok, r) ==
  IF ~ok THEN Controller_catch(S, p, r)
  ELSE Respond(S, p, 200,
               [success |-> TRUE, transcription |-> r.v.transcription,
                chunks |-> IF "chunks" \in DOMAIN r.v THEN r.v.chunks ELSE 1])

\* STTController.transcribeBase64Audio up to its await; req[p].len is the
\* length of the decoded buffer, hasData is the truthiness of body.audioData.
Controller_transcribeBase64Audio(S, p, hasData) ==
  LET S0 == [S EXCEPT !.req[p].client = ControllerClientId(@),
                      !.req[p].clientId = ControllerClientId(@)]
  IN  IF ~hasData
      THEN Respond(S, p, 400, [success |-> FALSE, error |-> NO_AUDIO_DATA])
      ELSE transcribeAudio(Push(S0, p, "ct_base64"), p)

Controller_transcribeBase64Audio_result(S, p, ok, r) ==
  IF ~ok THEN Controller_catch(S, p, r)
  ELSE Respond(S, p, 200,
               [success |-> TRUE, transcription |-> r.v.transcription])

\* STTController.healthCheck up to `await googleSTTService.healthCheck()`.
Controller_healthCheck(S, p) ==
  Return(Push(S, p, "ct_health"), p, Stt_healthCheck(S))

\* The rest of STTController.healthCheck.  res.json leaves out the properties
\* whose value is undefined.
Controller_healthCheck_got(S, p, ok, r) ==
  LET health == r.v
      stats  == getStats(S)
  IN  IF "authenticated" \in DOMAIN health
      THEN Respond(S, p, 200,
                   [status |-> health.status, service |-> "Google Speech-to-Text",
                    authenticated |-> health.authenticated,
                    initialized |-> health.initialized,
                    stats |-> stats, timestamp |-> health.timestamp,
                    version |-> "1.0.0"])
      ELSE Respond(S, p, 200,
                   [status |-> health.status, service |-> "Google Speech-to-Text",
                    stats |-> stats, version |-> "1.0.0"])

\* POST /transcribe: rateLimit, upload.single('audio') (fileFilter on the MIME
\* type, then the fileSize limit), STTController.transcribeAudio.
Route_transcribe(S, p, hasFile, mimeOk) ==
  LET rl == rateLimit(S.rateLimitMap, S.req[p].client, S.now)
      S1 == [S EXCEPT !.rateLimitMap = rl.map]
  IN  IF ~rl.ok
      THEN Respond(S1, p, 429, [success |-> FALSE, error |-> ROUTE_RATE_LIMITED])
      ELSE IF hasFile /\ ~mimeOk
      THEN errorHandler(S1, p, "", UNSUPPORTED_FORMAT)
      ELSE IF hasFile /\ S.req[p].len > maxFileSize
      THEN errorHandler(S1, p, "LIMIT_FILE_SIZE", <<"File too large">>)
      ELSE Controller_transcribeAudio(S1, p, hasFile)

\* POST /transcribe-base64: rateLimit, express.json,
\* STTController.transcribeBase64Audio.
Route_transcribeBase64(S, p, hasData) ==
  LET rl == rateLimit(S.rateLimitMap, S.req[p].client, S.now)
      S1 == [S EXCEPT !.rateLimitMap = rl.map]
  IN  IF ~rl.ok
      THEN Respond(S1, p, 429, [success |-> FALSE, error |-> ROUTE_RATE_LIMITED])
      ELSE Controller_transcribeBase64Audio(S1, p, hasData)

\* ------------------------------------------------------ resumption
Resume(S, p, l, ok, r) ==
  CASE l = "wi_getClient"    -> Wim_initialize_gotClient(S, p, ok, r)
    [] l = "wi_test"         -> Wim_initialize_tested(S, p, ok, r)
    [] l = "ta_getProjectId" -> Wim_testAuthentication_gotProjectId(S, p, ok, r)
    [] l = "ta_getToken"     -> Wim_testAuthentication_gotToken(S, p, ok, r)
    [] l = "gat_init"        -> Wim_getAccessToken_initialized(S, p, ok, r)
    [] l = "gat_token"       -> Wim_getAccessToken_gotToken(S, p, ok, r)
    [] l = "gac_init"        -> Wim_getAuthenticatedClient_initialized(S, p, ok, r)
    [] l = "gp_init"         -> Wim_getProjectId_initialized(S, p, ok, r)
    [] l = "gp_net"          -> Wim_getProjectId_got(S, p, ok, r)
    [] l = "rf_init"         -> Wim_refreshAuthentication_initialized(S, p, ok, r)
    [] l = "si_wimInit"      -> Stt_initialize_wimReady(S, p, ok, r)
    [] l = "si_client"       -> Stt_initialize_gotClient(S, p, ok, r)
    [] l = "si_project"      -> Stt_initialize_gotProjectId(S, p, ok, r)
    [] l = "tr_init"         -> transcribeAudio_initialized(S, p, ok, r)
    [] l = "tr_recognize"    -> transcribeAudio_recognized(S, p, ok, r)
    [] l = "tl_whole"        -> transcribeLongAudio_whole(S, p, ok, r)
    [] l = "tl_chunk"        -> transcribeLongAudio_chunked(S, p, ok, r)
    [] l = "tl_delay"        -> transcribeLongAudio_paced(S, p, ok, r)
    [] l = "ct_result"       -> Controller_transcribeAudio_result(S, p, ok, r)
    [] l = "ct_base64"       -> Controller_transcribeBase64Audio_result(S, p, ok, r)
    [] l = "ct_health"       -> Controller_healthCheck_got(S, p, ok, r)

\* ------------------------------------------- the remote collaborators
Alt(t, c) == [transcript |-> t, confidence |-> c, words |-> <<>>]
Responses ==
  { [results |-> <<>>],
    [totalBilledTime |-> 0],
    [results |-> << [alternatives |->
        << [transcript |-> "konnichiwa", confidence |-> 90,
            words |-> << [word |-> "konnichiwa",
                          startTime |-> [set |-> TRUE, seconds |-> 0,
                                        nanos |-> 500000000],
                          endTime |-> [set |-> TRUE, seconds |-> 1,
                                      nanos |-> 0],
                          confidence |-> 80] >>],
           Alt("konbanwa", 40), Alt("konnichi", 30), Alt("kon", 10) >>] >>] }

RemoteErrors ==
  { Err(3, <<"invalid argument">>), Err(8, <<"resource exhausted">>),
    Err(16, <<"unauthenticated">>), Err(0, <<"quota exceeded for project">>),
    Err(14, <<"unavailable">>),
    Err(3, <<"quota exceeded for project">>),
    Err(16, <<"upstream rate limit reached">>),
    Err(0, <<"upstream rate limit reached">>),
    Err(8, undefined), Err(0, undefined) }

\* ============================================================== actions
Idle(p) == stack[p] = << >> /\ sig[p] # "pending"

\* A caller invokes a method: the method runs to its first await.
Begin(p, op, len, fmt, client) ==
  [Cur EXCEPT !.req[p] = [NoReq EXCEPT !.op = op, !.len = len, !.fmt = fmt,
                                       !.client = client,
                                       !.audioLength = len,
                                       !.clientId = client],
              !.sig[p] = "idle", !.val[p] = Ok(Null), !.g.calls = @ + 1,
              !.g.caller = p]

\* The locals of a call that has settled are dead.
Settled(T, p) ==
  IF T.stack[p] # << >> THEN T
  ELSE [T EXCEPT !.req[p].len = 0, !.req[p].fmt = "webm",
                 !.req[p].startTime = 0, !.req[p].authClient = Null,
                 !.req[p].client = T.req[p].clientId,
                 !.req[p].i = 0, !.req[p].results = << >>,
                 !.req[p].totalProcessingTime = 0, !.req[p].due = 0]

Enter(p, T) == Len(T.stack[p]) <= MaxStack /\ Becomes(Settled(T, p))

CallTranscribeAudio(p, len, fmt, client) ==
  /\ Idle(p) /\ g.calls < MaxCalls
  /\ Enter(p, transcribeAudio(Begin(p, "transcribeAudio", len, fmt, client), p))

CallTranscribeLongAudio(p, len, fmt, client) ==
  /\ Idle(p) /\ g.calls < MaxCalls
  /\ Enter(p, transcribeLongAudio(
                Begin(p, "transcribeLongAudio", len, fmt, client), p))

CallSttInitialize(p) ==
  /\ Idle(p) /\ g.calls < MaxCalls
  /\ Enter(p, Stt_initialize(Begin(p, "Stt_initialize", 0, "webm", "none"), p))

CallCheckRateLimit(p, client) ==
  /\ Idle(p) /\ g.checks < MaxChecks
  /\ LET S0 == Begin(p, "checkRateLimit", 0, "webm", client)
         T  == RateCheck([S0 EXCEPT !.g.calls = @ - 1, !.g.checks = @ + 1],
                         ClientKey(client))
     IN  Becomes(IF T.lastCheck.ok THEN Return(T, p, Null)
                 ELSE Throw(T, p, Err(0, RATE_LIMIT_EXCEEDED)))

\* getEncodingConfig is synchronous: a direct call returns at once.
CallGetEncodingConfig(p, fmt) ==
  /\ Idle(p)
  /\ LET S0 == Begin(p, "getEncodingConfig", 0, fmt, "none")
     IN  Becomes(Return([S0 EXCEPT !.g.calls = @ - 1], p,
                        getEncodingConfig(fmt)))

\* An HTTP request arrives at POST /transcribe.  audioFormat = "" is a body
\* without the field: req.body.audioFormat || 'webm'.
RequestTranscribe(p, hasFile, mimeOk, len, audioFormat, ip) ==
  /\ Idle(p) /\ g.calls < MaxCalls
  /\ LET format == IF audioFormat = "" THEN "webm" ELSE audioFormat
         S0 == Begin(p, "Route_transcribe", IF hasFile THEN len ELSE 0,
                     format, ip)
     IN  Enter(p, Route_transcribe(S0, p, hasFile, mimeOk))

\* An HTTP request arrives at POST /transcribe-base64.
RequestTranscribeBase64(p, len, audioFormat, ip) ==
  /\ Idle(p) /\ g.calls < MaxCalls
  /\ LET format == IF audioFormat = "" THEN "webm" ELSE audioFormat
         S0 == Begin(p, "Route_transcribeBase64", len, format, ip)
     IN  Enter(p, Route_transcribeBase64(S0, p, len > 0))

\* An HTTP request arrives at GET /health (no rateLimit on this route).
RequestHealth(p) ==
  /\ Idle(p) /\ g.checks < MaxChecks
  /\ LET S0 == Begin(p, "Route_health", 0, "webm", "none")
     IN  Enter(p, Controller_healthCheck(
                    [S0 EXCEPT !.g.calls = @ - 1, !.g.checks = @ + 1], p))

\* isAuthenticated() is synchronous: a direct call returns at once.
CallIsAuthenticated(p) ==
  /\ Idle(p)
  /\ LET S0 == Begin(p, "isAuthenticated", 0, "webm", "none")
     IN  Becomes(Return([S0 EXCEPT !.g.calls = @ - 1], p, isAuthenticated(S0)))

CallWimInitialize(p) ==
  /\ Idle(p) /\ g.calls < MaxCalls
  /\ Enter(p, Wim_initialize(Begin(p, "initialize", 0, "webm", "none"), p))

CallGetAccessToken(p) ==
  /\ Idle(p) /\ g.calls < MaxCalls
  /\ LET S0 == Begin(p, "getAccessToken", 0, "webm", "none")
     IN  Enter(p, Wim_getAccessToken(S0, p))

CallGetAuthenticatedClient(p) ==
  /\ Idle(p) /\ g.calls < MaxCalls
  /\ LET S0 == Begin(p, "getAuthenticatedClient", 0, "webm", "none")
     IN  Enter(p, Wim_getAuthenticatedClient(
                    S0, p))

CallGetProjectId(p) ==
  /\ Idle(p) /\ g.calls < MaxCalls
  /\ LET S0 == Begin(p, "getProjectId", 0, "webm", "none")
     IN  Enter(p, Wim_getProjectId(S0, p))

CallRefreshAuthentication(p) ==
  /\ Idle(p) /\ g.calls < MaxCalls
  /\ Enter(p, Wim_refreshAuthentication(
                Begin(p, "refreshAuthentication", 0, "webm", "none"), p))

\* The network answers the call chain p is waiting on; p runs to its next await.
Reply(p, r) ==
  LET S0 == [Pop(Cur, p) EXCEPT
               !.sig[p] = "idle",
               !.g.anyFailure = IF r.ok THEN @ ELSE TRUE]
  IN  Enter(p, Resume(S0, p, Top(Cur, p), r.ok, r))

\* A call to the credential endpoint (auth.getClient, auth.getProjectId,
\* client.getAccessToken) resolves or rejects; a token may come back empty.
NetworkReply(p, r) ==
  /\ sig[p] = "pending"
  /\ Top(Cur, p) \notin {"tr_recognize", "tl_delay"}
  /\ r = Ok(Null) => Top(Cur, p) = "gat_token"
  /\ Reply(p, r)

\* speechClient.recognize resolves with a response or rejects.
RecognizerReply(p, r) ==
  /\ sig[p] = "pending"
  /\ Top(Cur, p) = "tr_recognize"
  /\ Reply(p, r)

\* A settled promise of an inner async function is delivered to the await of
\* its caller (a microtask); p runs to its next await.
Deliver(p) ==
  /\ stack[p] # << >>
  /\ sig[p] \in {"ok", "err"}
  /\ LET S0 == [Pop(Cur, p) EXCEPT !.sig[p] = "idle"]
     IN  Enter(p, Resume(S0, p, Top(Cur, p), sig[p] = "ok", val[p]))

\* The timer of a pacing delay fires: time has reached its due instant.
TimerFires(p) ==
  /\ sig[p] = "pending"
  /\ Top(Cur, p) = "tl_delay"
  /\ LET S0 == [Pop(Cur, p) EXCEPT
                  !.sig[p] = "idle",
                  !.now = IF @ < req[p].due THEN req[p].due ELSE @]
     IN  Enter(p, Resume(S0, p, "tl_delay", TRUE, Ok(Null)))

Tick ==
  /\ now < MaxNow
  /\ now' = now + TickMs
  /\ UNCHANGED <<build, requestCount, svc, wim, stack, sig, val, req,
                 accepted, rejects, lastCheck, g, gw, rateLimitMap, hook>>

NetReplies == {Ok(1), Ok(Null), Err(0, NETWORK_DOWN)}

\* ======================================================= STTApiService
\* The client's gateway.  G is the gateway state, t the current time.
timeout       == 30000
retryAttempts == 3

\* What the server may answer, and how long a fetch may take to settle.
HttpResponses ==
  { [status |-> 200, error |-> ""], [status |-> 400, error |-> ""],
    [status |-> 429, error |-> "rate limit exceeded"],
    [status |-> 500, error |-> ""] }
FetchLatencies == {0, 500}

AbortError     == [name |-> "AbortError", message |-> "The operation was aborted."]
FailedToFetch  == [name |-> "TypeError", message |-> "Failed to fetch"]
TIMEOUT_MESSAGE     == "TIMEOUT_MESSAGE"
CONNECT_MESSAGE     == "CONNECT_MESSAGE"
RATE_LIMIT_MESSAGE  == "RATE_LIMIT_MESSAGE"

GwEvent(e, attempt, at, what) ==
  [e |-> e, attempt |-> attempt, at |-> at, what |-> what]

\* Math.pow(2, attempt)
RECURSIVE Pow2(_)
Pow2(n) == IF n = 0 THEN 1 ELSE 2 * Pow2(n - 1)

\* handleError: the error transcribeAudioFile throws for what it caught.
handleError(error) ==
  IF error.name = "AbortError" THEN [name |-> "Error", message |-> TIMEOUT_MESSAGE]
  ELSE IF error.message = "Failed to fetch"
       THEN [name |-> "Error", message |-> CONNECT_MESSAGE]
  ELSE IF error.message = "rate limit exceeded"
       THEN [name |-> "Error", message |-> RATE_LIMIT_MESSAGE]
  ELSE error

\* transcribeAudioFile after `await this.fetchWithRetry(...)` has settled:
\* a response that is not ok is thrown as an error, never retried.
transcribeAudioFile_fetched(G) ==
  IF G.outcome.kind = "error"
  THEN [G EXCEPT !.caller = [kind |-> "threw",
                             error |-> handleError(G.outcome.error)]]
  ELSE IF G.outcome.status < 200 \/ G.outcome.status > 299
  THEN [G EXCEPT !.caller =
          [kind |-> "threw",
           error |-> handleError(
             [name |-> "Error",
              message |-> IF G.outcome.body # "" THEN G.outcome.body
                          ELSE "HTTP " \o ToString(G.outcome.status)])]]
  ELSE [G EXCEPT !.caller = [kind |-> "returned",
                             error |-> [name |-> "", message |-> ""]]]

\* fetchWithRetry(endpoint, options, attempt) up to `await fetch(...)`: the
\* abort timer is armed and the request is issued.
fetchWithRetry(G, attempt, t) ==
  [G EXCEPT !.phase = "fetching", !.attempt = attempt, !.startedAt = t,
            !.log = Append(@, GwEvent("fetch", attempt, t, ""))]

\* The catch block of fetchWithRetry with one attempt too many.
fetchWithRetry_caught_OneMore(G, error, t) ==
  LET G0 == [G EXCEPT !.log = Append(@, GwEvent("threw", G.attempt, t,
                                                error.name))]
  IN  IF G.attempt <= retryAttempts
      THEN [G0 EXCEPT !.phase = "backoff",
                      !.due = t + Pow2(G.attempt) * 1000,
                      !.log = Append(@, GwEvent("wait", G.attempt, t, ""))]
      ELSE transcribeAudioFile_fetched(
             [G0 EXCEPT !.phase = "thrown",
                        !.outcome = [kind |-> "error", status |-> 0,
                                     body |-> "", error |-> error]])

\* The catch block of fetchWithRetry: fetch threw `error` at time t.
fetchWithRetry_caught(G, error, t) ==
  LET G0 == [G EXCEPT !.log = Append(@, GwEvent("threw", G.attempt, t,
                                                error.name))]
  IN  IF G.attempt < retryAttempts
      THEN [G0 EXCEPT !.phase = "backoff",
                      !.due = t + Pow2(G.attempt) * 1000,
                      !.log = Append(@, GwEvent("wait", G.attempt, t, ""))]
      ELSE transcribeAudioFile_fetched(
             [G0 EXCEPT !.phase = "thrown",
                        !.outcome = [kind |-> "error", status |-> 0,
                                     body |-> "", error |-> error]])

\* fetchWithRetry retrying when the server answered with a 5xx status.
fetchWithRetry_returned_RetryOn5xx(G, response, t) ==
  LET G0 == [G EXCEPT !.log = Append(@, GwEvent("response", G.attempt, t,
                                                ToString(response.status)))]
  IN  IF response.status >= 500
      THEN fetchWithRetry_caught(G0, [name |-> "Error", message |-> "5xx"], t)
      ELSE transcribeAudioFile_fetched(
             [G0 EXCEPT !.phase = "returned",
                        !.outcome = [kind |-> "response",
                                     status |-> response.status,
                                     body |-> response.error,
                                     error |-> [name |-> "", message |-> ""]]])

\* fetch resolved with `response` at time t: clearTimeout, return response.
fetchWithRetry_returned(G, response, t) ==
  transcribeAudioFile_fetched(
    [G EXCEPT !.phase = "returned",
              !.outcome = [kind |-> "response", status |-> response.status,
                           body |-> response.error,
                           error |-> [name |-> "", message |-> ""]],
              !.log = Append(@, GwEvent("response", G.attempt, t,
                                        ToString(response.status)))])

\* The backoff timer fired at time t: `return this.fetchWithRetry(endpoint,
\* options, attempt + 1)`.
fetchWithRetry_retry(G, t) == fetchWithRetry(G, G.attempt + 1, t)

ServiceVars == <<build, requestCount, svc, wim, stack, sig, val, req,
                 accepted, rejects, lastCheck, g, rateLimitMap, hook>>

\* The client calls transcribeAudioFile: fetchWithRetry(..., attempt = 1).
GwCallTranscribeAudioFile ==
  /\ gw.phase \in {"idle", "returned", "thrown"}
  /\ gw.calls < MaxCalls
  /\ gw' = fetchWithRetry([NoGateway EXCEPT !.calls = gw.calls + 1], 1, now)
  /\ UNCHANGED <<now, ServiceVars>>

\* The server's response arrives after d ms, before the abort timer.
GwFetchResponds(response, d) ==
  /\ gw.phase = "fetching"
  /\ now + d < gw.startedAt + timeout
  /\ now' = now + d
  /\ gw' = fetchWithRetry_returned(gw, response, now + d)
  /\ UNCHANGED ServiceVars

\* The connection fails after d ms: fetch rejects with a TypeError.
GwFetchFails(d) ==
  /\ gw.phase = "fetching"
  /\ now + d < gw.startedAt + timeout
  /\ now' = now + d
  /\ gw' = fetchWithRetry_caught(gw, FailedToFetch, now + d)
  /\ UNCHANGED ServiceVars

\* No answer within `timeout`: the timer aborts the fetch, which rejects.
GwFetchAborted ==
  /\ gw.phase = "fetching"
  /\ now' = gw.startedAt + timeout
  /\ gw' = fetchWithRetry_caught(gw, AbortError, gw.startedAt + timeout)
  /\ UNCHANGED ServiceVars

\* The backoff delay has elapsed.
GwBackoffElapsed ==
  /\ gw.phase = "backoff"
  /\ now' = (IF now < gw.due THEN gw.due ELSE now)
  /\ gw' = fetchWithRetry_retry(gw, IF now < gw.due THEN gw.due ELSE now)
  /\ UNCHANGED ServiceVars

GwSettles ==
  \/ \E r \in HttpResponses, d \in FetchLatencies : GwFetchResponds(r, d)
  \/ \E d \in FetchLatencies : GwFetchFails(d)
  \/ GwFetchAborted
  \/ GwBackoffElapsed

GatewayNext ==
  \/ GwCallTranscribeAudioFile
  \/ GwSettles

\* ========================================== useAndroidVoiceRecognition
\* H is the hook's state.  The backend's answer for the audio of recording i.
STTResult(i) ==
  [success |-> TRUE, transcription |-> "text of audio " \o ToString(i),
   confidence |-> 90 + i, processingTime |-> 100 * i]

\* The hook's startRecording up to `await voiceRecognition.startRecording()`,
\* which waits for the microphone.
Hook_startRecording(H) ==
  [H EXCEPT !.error = "", !.transcript = "", !.isProcessing = FALSE,
            !.currentRecording = 0, !.starting = @ + 1]

\* AndroidVoiceRecognition.startRecording after getUserMedia resolved.
Recorder_started(H) ==
  [H EXCEPT !.starting = @ - 1, !.audioChunks = FALSE, !.isRecording = TRUE]

\* getUserMedia rejected: startRecording throws, the hook's catch sets error.
Recorder_startFailed(H) ==
  [H EXCEPT !.starting = @ - 1, !.error = "start failed"]

\* mediaRecorder.ondataavailable with event.data.size > 0
Recorder_dataAvailable(H) == [H EXCEPT !.audioChunks = TRUE]

\* AndroidVoiceRecognition.stopRecording: the recording it resolves with
\* (0 = null) and the state after it; with audio it starts
\* processAudioWithSTT without awaiting it.
Recorder_stopRecording(H) ==
  LET k == Len(H.recordings) + 1
      H0 == [H EXCEPT !.isRecording = FALSE]
  IN  IF H.audioChunks
      THEN [recording |-> k,
            H |-> [H0 EXCEPT
                     !.recordings =
                        Append(@, [transcript |-> PLACEHOLDER,
                                   confidence |-> 0, processingTime |-> 0]),
                     !.inflight = @ \cup {k}]]
      ELSE [recording |-> 0, H |-> H0]

\* The hook's stopRecording with its continuation after the await.
Hook_stopRecording(H) ==
  LET r == Recorder_stopRecording([H EXCEPT !.isProcessing = TRUE])
  IN  IF r.recording # 0
      THEN [r.H EXCEPT !.currentRecording = r.recording,
                       !.transcript = PLACEHOLDER]
      ELSE r.H

\* The onTranscriptionComplete callback the hook installs; i is the recording
\* whose audio the result belongs to (the callback does not receive it).
onTranscriptionComplete(H, i, sttResult) ==
  LET H0 == [H EXCEPT !.isProcessing = FALSE]
      c  == H.currentRecording
  IN  IF c # 0
      THEN [H0 EXCEPT !.recordings[c].transcript = sttResult.transcription,
                      !.recordings[c].confidence = sttResult.confidence,
                      !.recordings[c].processingTime = sttResult.processingTime,
                      !.transcript = sttResult.transcription]
      ELSE H0

\* onError: setError
onError(H, message) == [H EXCEPT !.error = message]

\* processAudioWithSTT after `await sttApiService.transcribeAudioFile(...)`:
\* outcome "success" | "failure" (a result with success = false) | "threw".
processAudioWithSTT_settled(H, i, outcome) ==
  LET H0 == [H EXCEPT !.inflight = @ \ {i}]
  IN  IF outcome = "success" THEN onTranscriptionComplete(H0, i, STTResult(i))
      ELSE onError(H0, "transcription failed")

HookFrame ==
  UNCHANGED <<build, now, requestCount, svc, wim, stack, sig, val, req,
              accepted, rejects, lastCheck, g, gw, rateLimitMap>>

\* The user presses the record button / the stop button.
UserStartsRecording ==
  /\ hook.clicks < MaxClicks
  /\ hook' = [Hook_startRecording(hook) EXCEPT !.clicks = @ + 1]
  /\ HookFrame

UserStopsRecording ==
  /\ hook.clicks < MaxClicks
  /\ hook' = [Hook_stopRecording(hook) EXCEPT !.clicks = @ + 1]
  /\ HookFrame

MicrophoneGranted ==
  /\ hook.starting > 0
  /\ hook' = Recorder_started(hook)
  /\ HookFrame

MicrophoneDenied ==
  /\ hook.starting > 0
  /\ hook' = Recorder_startFailed(hook)
  /\ HookFrame

DataAvailable ==
  /\ hook.isRecording
  /\ hook' = Recorder_dataAvailable(hook)
  /\ HookFrame

TranscriptionSettles(i, outcome) ==
  /\ i \in hook.inflight
  /\ hook' = processAudioWithSTT_settled(hook, i, outcome)
  /\ HookFrame

\* What happens without the user: pending promises settle.
HookSettles ==
  \/ MicrophoneGranted
  \/ MicrophoneDenied
  \/ \E i \in hook.inflight, outcome \in {"success", "failure", "threw"} :
       TranscriptionSettles(i, outcome)

HookNext ==
  \/ UserStartsRecording
  \/ UserStopsRecording
  \/ DataAvailable
  \/ HookSettles

Progress ==
  \/ \E p \in Procs : \E r \in NetReplies : NetworkReply(p, r)
  \/ \E p \in Procs : Deliver(p)

\* Direct calls of getEncodingConfig by two callers.
EncodingNext ==
  \E p \in Procs, fmt \in EncodingFormats : CallGetEncodingConfig(p, fmt)

\* The rate limiter alone: direct calls of checkRateLimit over time.
LimiterNext ==
  \/ \E p \in Procs, c \in ClientOpts : CallCheckRateLimit(p, c)
  \/ Tick

\* The credential manager and the service initialization, called concurrently.
AuthNext ==
  \/ \E p \in Procs : CallSttInitialize(p)
  \/ \E p \in Procs : CallWimInitialize(p)
  \/ \E p \in Procs : CallGetAccessToken(p)
  \/ \E p \in Procs : CallGetAuthenticatedClient(p)
  \/ \E p \in Procs : CallGetProjectId(p)
  \/ \E p \in Procs : CallRefreshAuthentication(p)
  \/ Progress

\* Both rate limiters over time: direct calls of checkRateLimit, and requests
\* without audio data to POST /transcribe-base64, which pass the rateLimit
\* middleware and are answered 400 by the controller.
LimitsNext ==
  \/ \E p \in Procs, c \in ClientOpts : CallCheckRateLimit(p, c)
  \/ \E p \in Procs : RequestTranscribeBase64(p, 0, "webm", "a")
  \/ Tick

\* The credential manager with its state query.
ManagerNext ==
  \/ AuthNext
  \/ \E p \in Procs : CallIsAuthenticated(p)

\* Concurrent transcription requests of valid audio against a cold service;
\* the recognizer answers with an empty response or is unavailable.
ServiceNext ==
  \/ \E p \in Procs, c \in ClientOpts :
       CallTranscribeAudio(p, 2097152, "webm", c)
  \/ \E p \in Procs : RecognizerReply(p, Ok([results |-> <<>>]))
  \/ \E p \in Procs : RecognizerReply(p, Err(14, <<"unavailable">>))
  \/ Progress
  \/ Tick

\* One caller issuing transcription requests one after the other, with every
\* input and every answer of the recognizer.
RequestNext ==
  \/ \E len \in AudioLengths, fmt \in Formats, c \in ClientOpts :
       CallTranscribeAudio(1, len, fmt, c)
  \/ \E x \in Responses : RecognizerReply(1, Ok(x))
  \/ \E e \in RemoteErrors : RecognizerReply(1, e)
  \/ Progress
  \/ Tick

\* One caller issuing long-audio requests on a service that is cold or was
\* initialized first; the recognizer answers each chunk with a transcript, with an empty
\* response, or rejects it.
LongReplies ==
  { Ok([results |-> <<>>]),
    Ok([results |-> << [alternatives |-> << Alt("ichi", 90) >>] >>]),
    Ok([results |-> << [alternatives |-> << Alt("ni", 50) >>] >>]),
    Err(14, <<"unavailable">>) }

LongNext ==
  \/ g.calls = 0 /\ CallSttInitialize(1)
  \/ \E len \in LongLengths, fmt \in {"webm", "flac"} :
       CallTranscribeLongAudio(1, len, fmt, "a")
  \/ \E r \in LongReplies : RecognizerReply(1, r)
  \/ NetworkReply(1, Ok(1))
  \/ Deliver(1)
  \/ TimerFires(1)

\* One caller "a" mixing plain requests with long-audio requests while time
\* passes, on a service that initializes itself on the first request.
ChunksNext ==
  \/ CallTranscribeAudio(1, 2097152, "webm", "a")
  \/ \E len \in {4194305, 10485761} :
       CallTranscribeLongAudio(1, len, "webm", "a")
  \/ \E r \in LongReplies \ {Ok([results |-> << [alternatives |-> << Alt("ni", 50) >>] >>])} :
       RecognizerReply(1, r)
  \/ NetworkReply(1, Ok(1))
  \/ Deliver(1)
  \/ TimerFires(1)
  \/ Tick

\* The HTTP surface: caller 1 posts transcription requests from one IP,
\* caller 2 polls the health endpoint, time passes.
UploadLengths == {2097152, 4194305, 10485761}
ControllerReplies ==
  { Ok([results |-> <<>>]),
    Ok([results |-> << [alternatives |-> << Alt("ichi", 90) >>] >>]),
    Err(3, <<"invalid argument">>),
    Err(14, <<"unavailable">>) }

ControllerNext ==
  \/ \E hasFile, mimeOk \in BOOLEAN, len \in UploadLengths,
        audioFormat \in {"", "flac"} :
       RequestTranscribe(1, hasFile, mimeOk, len, audioFormat, "a")
  \/ \E len \in {0, 2097152}, audioFormat \in {"webm", "flac"} :
       RequestTranscribeBase64(1, len, audioFormat, "a")
  \/ \E r \in ControllerReplies : RecognizerReply(1, r)
  \/ NetworkReply(1, Ok(1))
  \/ Deliver(1)
  \/ TimerFires(1)
  \/ Tick

\* The health endpoint polled by caller 2 while caller 1 posts valid audio
\* and the credential endpoint answers or is down.
HealthNext ==
  \/ RequestHealth(2)
  \/ RequestTranscribeBase64(1, 2097152, "webm", "a")
  \/ RecognizerReply(1, Ok([results |-> <<>>]))
  \/ \E r \in NetReplies : NetworkReply(1, r)
  \/ \E p \in Procs : Deliver(p)
  \/ Tick

Next ==
  \/ ControllerNext \/ HealthNext \/ ManagerNext \/ LimitsNext \/ HookNext
  \/ LimiterNext \/ AuthNext \/ ServiceNext \/ RequestNext \/ LongNext
  \/ GatewayNext \/ EncodingNext \/ ChunksNext

Spec        == Init /\ [][Next]_vars
SpecLimiter == Init /\ [][LimiterNext]_vars
SpecAuth    == Init /\ [][AuthNext]_vars
SpecService == Init /\ [][ServiceNext]_vars
SpecRequest == Init /\ [][RequestNext]_vars
SpecLong    == Init /\ [][LongNext]_vars
SpecEncoding == Init /\ [][EncodingNext]_vars
SpecChunks  == Init /\ [][ChunksNext]_vars
SpecController == Init /\ [][ControllerNext]_vars
SpecHealth  == Init /\ [][HealthNext]_vars
SpecManager == Init /\ [][ManagerNext]_vars
SpecLimits  == Init /\ [][LimitsNext]_vars
\* Every pending promise of the hook settles.
SpecHook    == Init /\ [][HookNext]_vars /\ WF_vars(HookSettles)
\* Every outstanding fetch settles (a response, a failure, or the abort timer
\* at the latest) and every armed timer fires.
SpecGateway == Init /\ [][GatewayNext]_vars /\ WF_vars(GwSettles)


\* =========================================================== properties
Front(q) == SubSeq(q, 1, Len(q) - 1)

\* The instants accepted for the key of the latest check before that check.
AcceptedBefore ==
  IF lastCheck.ok THEN Front(accepted[lastCheck.key]) ELSE accepted[lastCheck.key]

\* How many of the instants in q lie in the window of width w that ends at t.
InWindow(q, t, w) == Len(SelectSeq(q, LAMBDA a : t - a < w))

\* C1: a check is rejected exactly when the caller already has
\* rateLimitPerMinute accepted requests in the 60 seconds before it; accepted
\* requests that are 60 seconds old or older no longer count (sliding window).
C1_SlidingMinuteWindow ==
  lastCheck.n > 0 =>
    (lastCheck.ok <=> InWindow(AcceptedBefore, lastCheck.at, 60000) < rateLimitPerMinute)

\* C1 witness: the ceiling was reached, a request was rejected, and a request
\* made 60 s or more after the first accepted one is accepted again.
C1_Witness ==
  /\ lastCheck.n > 0 /\ lastCheck.ok
  /\ rejects[lastCheck.key] > 0
  /\ Len(accepted[lastCheck.key]) = rateLimitPerMinute + 1
  /\ lastCheck.at - accepted[lastCheck.key][1] >= 60000

\* C2 (as claimed): a check made when the caller already has rateLimitPerHour
\* accepted requests in the trailing 3600 seconds is rejected.
C2_HourCeilingEnforced ==
  lastCheck.n > 0 =>
    (InWindow(AcceptedBefore, lastCheck.at, 3600000) >= rateLimitPerHour
       => ~lastCheck.ok)

\* C3: a rejected check leaves the requestCount map as it was; an accepted
\* check touches only the caller's entry, whose new value is the caller's old
\* entries inside the minute window followed by the current instant.
C3_RejectBeforeRecord ==
  [][lastCheck'.n = lastCheck.n + 1 =>
       LET k   == lastCheck'.key
           old == MapGet(requestCount, k)
       IN  IF ~lastCheck'.ok THEN requestCount' = requestCount
           ELSE /\ DOMAIN requestCount' = DOMAIN requestCount \cup {k}
                /\ \A j \in DOMAIN requestCount :
                     j # k => requestCount'[j] = requestCount[j]
                /\ requestCount'[k] # << >>
                /\ requestCount'[k][Len(requestCount'[k])] = now
                /\ Front(requestCount'[k]) =
                     SelectSeq(old, LAMBDA a : now - a < 60000)]_vars

\* C3 witness: a request was rejected while the caller's stored history is
\* full, and the history holds exactly the accepted instants.
C3_Witness ==
  /\ lastCheck.n > 0 /\ ~lastCheck.ok
  /\ Len(MapGet(requestCount, lastCheck.key)) = rateLimitPerMinute
  /\ MapGet(requestCount, lastCheck.key) = accepted[lastCheck.key]

\* C4: whatever the interleaving of concurrent transcribeAudio calls, a caller
\* never has more than rateLimitPerMinute admitted requests inside one minute
\* window, and a request is only rejected once all slots are taken.
C4_NoLostUpdate ==
  \A k \in Keys :
    /\ InWindow(accepted[k], now, 60000) <= rateLimitPerMinute
    /\ rejects[k] > 0 => Len(accepted[k]) >= rateLimitPerMinute

\* C4 witness: a request that started on the cold service and waited through
\* the initialization is rejected while another request of the same caller,
\* admitted meanwhile, is still in flight at the recognizer.
C4_Witness ==
  \E p, q \in Procs :
    /\ p # q
    /\ req[p].op = "transcribeAudio" /\ req[q].op = "transcribeAudio"
    /\ req[p].client = req[q].client
    /\ req[q].cold /\ req[q].rejectedBy = "limiter"
    /\ stack[p] = <<"tr_recognize">>
    /\ Len(accepted[ClientKey(req[p].client)]) = rateLimitPerMinute


InitOps   == {"initialize", "Stt_initialize"}
Accessors == {"getAccessToken", "getAuthenticatedClient", "getProjectId"}

\* p's top-level call has settled (returned or thrown).
Done(p) == stack[p] = << >> /\ sig[p] \in {"ok", "err"}

\* C5 (as claimed): two initialize() calls that are in flight together on a
\* manager that was Uninitialized, with no failing network call, perform one
\* handshake (auth.getClient) between them.
C5_OneHandshake ==
  \A p, q \in Procs :
    ( /\ p # q
      /\ req[p].op \in InitOps /\ req[q].op \in InitOps
      /\ stack[p] # << >> /\ stack[q] # << >>
      /\ g.calls = 2 /\ ~g.anyFailure /\ ~g.refreshCalled )
    => g.getClientCalls <= 1

\* C6: initialize() called on a manager that is already initialized returns
\* at once: no handshake, no network call, and initialized, client and auth
\* (and the service) are left as they were.
C6_IdempotentInitialize ==
  [][\A p \in Procs :
       ( /\ g'.calls = g.calls + 1 /\ g'.caller = p
         /\ req'[p].op \in InitOps
         /\ wim.initialized )
       => /\ wim' = wim
          /\ svc' = svc
          /\ g'.getClientCalls = g.getClientCalls
          /\ sig'[p] = "ok"
          /\ stack'[p] = IF req'[p].op = "initialize" THEN << >>
                         ELSE <<"si_wimInit">>]_vars

\* C6 witness: two initialize() calls have returned normally on the
\* initialized manager and only one handshake was made.
C6_Witness ==
  \E p, q \in Procs :
    /\ p # q
    /\ req[p].op = "initialize" /\ req[q].op = "initialize"
    /\ Done(p) /\ sig[p] = "ok" /\ Done(q) /\ sig[q] = "ok"
    /\ g.calls = 2 /\ g.getClientCalls = 1
    /\ wim.initialized /\ isAuthenticated(Cur)

\* C7 (as claimed): an initialize() that has failed while no liveness probe
\* ever succeeded leaves the manager not Ready.
C7_NotReadyAfterFailedProbe ==
  \A p \in Procs :
    (req[p].op = "initialize" /\ Done(p) /\ sig[p] = "err" /\ ~g.probeOk)
    => (~wim.initialized /\ ~isAuthenticated(Cur))

\* C8 (as claimed): an accessor called while initialize() has never been
\* called fails at once with the not-initialized error, issues no network
\* call and leaves the manager as it was.
C8_AccessorsFailFast ==
  [][\A p \in Procs :
       ( /\ g'.calls = g.calls + 1 /\ g'.caller = p
         /\ req'[p].op \in Accessors
         /\ ~g.initCalled )
       => /\ stack'[p] = << >>
          /\ sig'[p] = "err"
          /\ val'[p].msg = NOT_INITIALIZED
          /\ wim' = wim
          /\ g'.getClientCalls = g.getClientCalls]_vars

\* C9 (as claimed): a refreshAuthentication() during which no network call
\* failed returns normally and leaves the manager Ready with a client.
C9_RefreshSucceeds ==
  \A p \in Procs :
    (req[p].op = "refreshAuthentication" /\ Done(p) /\ ~g.anyFailure)
    => (sig[p] = "ok" /\ wim.initialized /\ wim.client # Null)

\* C10 (as claimed): when the validator or the rate limiter rejected the
\* request, the error transcribeAudio throws is that error, unchanged.
C10_LocalErrorsUnchanged ==
  \A p \in Procs :
    (req[p].op = "transcribeAudio" /\ Done(p) /\ req[p].rejectedBy # "none")
    => (sig[p] = "err" /\ val[p] = req[p].thrown)

\* C11: a transcribeAudio request that the validator or the rate limiter
\* rejected has failed at once and was never handed to speechClient.recognize.
C11_RejectedNeverRecognized ==
  \A p \in Procs :
    (req[p].op = "transcribeAudio" /\ req[p].rejectedBy # "none")
    => /\ req[p].sent = << >>
       /\ Done(p) /\ sig[p] = "err"

\* C11 witness: on an initialized service with a speech client, a request was
\* rejected by the rate limiter after two requests of the same caller had
\* been accepted.
C11_Witness ==
  /\ req[1].op = "transcribeAudio" /\ req[1].rejectedBy = "limiter"
  /\ svc.initialized /\ svc.speechClient # Null
  /\ Len(accepted[ClientKey(req[1].client)]) = rateLimitPerMinute
  /\ Done(1)

\* C12 (as claimed): no buffer was handed to speechClient.recognize in a call
\* of transcribeAudio or transcribeLongAudio whose input is larger than
\* maxFileSize.
C12_NoRecognizeAboveMaxFileSize ==
  \A p \in Procs :
    (req[p].op \in {"transcribeAudio", "transcribeLongAudio"}
       /\ req[p].audioLength > maxFileSize)
    => req[p].sent = << >>

\* The validator of the specification: three checks in a fixed order, the
\* first failing one decides; `fold` is applied to the declared format first.
RefChecks(len, fmt) ==
  << [bad |-> len > maxFileSize, err |-> FILE_TOO_LARGE],
     [bad |-> fmt \notin {"webm", "wav", "mp3", "ogg"},
      err |-> UNSUPPORTED_FORMAT],
     [bad |-> len > maxAudioLength * sampleRateHertz * 2,
      err |-> AUDIO_TOO_LONG] >>

FirstFailure(checks) ==
  LET failing == {k \in 1..Len(checks) : checks[k].bad}
  IN  IF failing = {} THEN <<>>
      ELSE checks[CHOOSE k \in failing : \A j \in failing : k <= j].err

\* p has just run validateAudioFile in this step.
Validated(p) == req'[p].checked.set /\ req'[p] # req[p]

\* A rejection by the validator left the service, the manager and the rate
\* limiter as they were.
ValidatorChangedNothing ==
  /\ requestCount' = requestCount /\ accepted' = accepted
  /\ rejects' = rejects /\ svc' = svc /\ wim' = wim

\* C13 (as claimed): validateAudioFile gives what the reference gives, the
\* declared format being looked up in {webm, wav, mp3, ogg} as it was passed.
C13_ValidatorEqualsReference ==
  [][\A p \in Procs :
       Validated(p) =>
         LET c == req'[p].checked
         IN  c.out = FirstFailure(RefChecks(c.len, c.fmt))]_vars

\* C13 (amended): validateAudioFile gives what the reference gives once the
\* declared format is lower-cased before it is looked up, and a rejection
\* changes no state.
C13_ValidatorEqualsFoldedReference ==
  [][\A p \in Procs :
       Validated(p) =>
         LET c == req'[p].checked
         IN  /\ c.out = FirstFailure(RefChecks(c.len, toLowerCase(c.fmt)))
             /\ c.out # <<>> => ValidatorChangedNothing]_vars

\* C13 witness: the validator has accepted a buffer declared as "WAV".
C13_Witness ==
  /\ req[1].op = "transcribeAudio"
  /\ req[1].checked = [set |-> TRUE, len |-> 9600000, fmt |-> "WAV",
                       out |-> <<>>]

\* ------------------------------------------------ transcribeLongAudio
Long(p) == req[p].op = "transcribeLongAudio"
Chunked(p) == Long(p) /\ req[p].audioLength > maxChunkSize
Events(p, kind) == SelectSeq(req[p].trace, LAMBDA ev : ev.e = kind)

\* ceil(S / T): the least k with k * T >= S.
CeilDiv(S, T) == CHOOSE k \in 0..(S \div T + 1) : k * T >= S /\ (k - 1) * T < S

RECURSIVE SpaceJoined(_)
SpaceJoined(texts) ==
  IF texts = << >> THEN ""
  ELSE IF Len(texts) = 1 THEN texts[1]
  ELSE SpaceJoined(SubSeq(texts, 1, Len(texts) - 1)) \o " " \o texts[Len(texts)]

\* The transcripts the single-chunk invocations returned, in chunk order.
ChunkTexts(p) ==
  LET ends == Events(p, "end") IN [k \in 1..Len(ends) |-> ends[k].text]

\* C14: a transcribeLongAudio call above the threshold starts its chunk
\* invocations in index order 0, 1, ..., never more than ceil(S / T) of them,
\* and when it returns it has made exactly ceil(S / T) and its transcript is
\* the non-empty chunk transcripts joined by single spaces in chunk order; a
\* call at or below the threshold makes one invocation on the whole buffer and
\* returns its result.
C14_ChunkCountOrderAndMerge ==
  \A p \in Procs :
    Long(p) =>
      LET S      == req[p].audioLength
          n      == CeilDiv(S, maxChunkSize)
          starts == Events(p, "start")
          wholes == Events(p, "whole")
          done   == Done(p) /\ sig[p] = "ok"
      IN  IF S > maxChunkSize
          THEN /\ wholes = << >>
               /\ \A k \in 1..Len(starts) : starts[k].i = k - 1
               /\ Len(starts) <= n
               /\ done =>
                    /\ Len(starts) = n
                    /\ Len(req[p].sent) = n
                    /\ val[p].v.chunks = n
                    /\ val[p].v.transcription =
                         SpaceJoined(SelectSeq(ChunkTexts(p),
                                               LAMBDA t : t # ""))
          ELSE /\ starts = << >>
               /\ Len(wholes) <= 1
               /\ done =>
                    /\ Len(wholes) = 1
                    /\ req[p].sent = << S >>
                    /\ "chunks" \notin DOMAIN val[p].v
                    /\ val[p].v.transcription = ChunkTexts(p)[1]

\* C14 witness: a buffer of four times the threshold was transcribed in four
\* chunks, two of them silent, and the merged transcript is "ni ichi".
C14_Witness ==
  /\ Long(1) /\ req[1].audioLength = 4 * maxChunkSize
  /\ Done(1) /\ sig[1] = "ok"
  /\ Len(Events(1, "start")) = 4
  /\ ChunkTexts(1) = << "ni", "", "ichi", "" >>
  /\ val[1].v.transcription = "ni ichi"

\* Chunk invocations of p that have started and not yet completed.
InFlight(p) ==
  Len(Events(p, "start")) - Len(Events(p, "end")) - Len(Events(p, "failed"))

\* C15: within one chunked request at most one chunk invocation is in flight;
\* chunk i+1 starts only after chunk i has completed and the pacing delay
\* that followed it has run for at least 1000 ms; no delay follows the last
\* chunk, and a request that returned with N chunks has waited N-1 times.
C15_SequentialPacedChunks ==
  \A p \in Procs :
    Chunked(p) =>
      LET tr == req[p].trace
          n  == CeilDiv(req[p].audioLength, maxChunkSize)
      IN  /\ InFlight(p) \in {0, 1}
          /\ (\E k \in 1..Len(stack[p]) : stack[p][k] = "tl_delay")
               => InFlight(p) = 0
          /\ \A k \in 1..Len(tr) :
               (tr[k].e = "start" /\ tr[k].i > 0) =>
                 /\ k > 3
                 /\ tr[k-3].e = "end" /\ tr[k-3].i = tr[k].i - 1
                 /\ tr[k-2].e = "delay" /\ tr[k-2].i = tr[k].i - 1
                 /\ tr[k-1].e = "elapsed" /\ tr[k-1].i = tr[k].i - 1
                 /\ tr[k].at >= tr[k-3].at + 1000
          /\ \A k \in 1..Len(tr) : tr[k].e = "delay" => tr[k].i < n - 1
          /\ (Done(p) /\ sig[p] = "ok") =>
               /\ Len(Events(p, "delay")) = n - 1
               /\ Len(Events(p, "elapsed")) = n - 1

\* C15 witness: a request of four chunks has returned after three pacing
\* delays.
C15_Witness ==
  /\ Chunked(1) /\ Done(1) /\ sig[1] = "ok"
  /\ Len(Events(1, "end")) = 4 /\ Len(Events(1, "elapsed")) = 3
  /\ now >= 3000

\* C16: once the invocation for chunk i has failed, nothing more happens in
\* the request: no later chunk is started or sent, and the request has failed
\* with the error that invocation left with, not with a result.
C16_AbortOnFirstChunkFailure ==
  \A p \in Procs :
    Chunked(p) =>
      \A k \in 1..Len(req[p].trace) :
        req[p].trace[k].e = "failed" =>
          /\ k = Len(req[p].trace)
          /\ Len(Events(p, "start")) = req[p].trace[k].i + 1
          /\ Len(req[p].sent) <= req[p].trace[k].i + 1
          /\ Done(p) /\ sig[p] = "err"
          /\ val[p] = req[p].threw

\* C16 witness: chunk 2 failed at the recognizer after chunks 0 and 1 had
\* succeeded.
C16_Witness ==
  /\ Chunked(1) /\ Done(1) /\ sig[1] = "err"
  /\ Len(Events(1, "end")) = 2
  /\ Events(1, "failed") # << >> /\ Events(1, "failed")[1].i = 2
  /\ ~req[1].remote.ok

\* ------------------------------------------------ classification of failures
\* The classification of the specification: the first rule that applies.
RefClassify(error) ==
  LET known == FirstFailure(
        << [bad |-> error.code = 3,  err |-> UNSUPPORTED_FORMAT],
           [bad |-> error.code = 8,  err |-> RATE_LIMIT_EXCEEDED],
           [bad |-> error.code = 16, err |-> AUTHENTICATION_FAILED],
           [bad |-> error.msg # undefined /\ includes(error.msg, "rate limit"),
            err |-> RATE_LIMIT_EXCEEDED],
           [bad |-> error.msg # undefined /\ includes(error.msg, "quota"),
            err |-> RATE_LIMIT_EXCEEDED] >>)
  IN  IF known # <<>> THEN known
      ELSE TRANSCRIPTION_FAILED \o <<": ">> \o error.msg

Taxonomy ==
  { UNSUPPORTED_FORMAT[1], FILE_TOO_LARGE[1], AUDIO_TOO_LONG[1],
    RATE_LIMIT_EXCEEDED[1], AUTHENTICATION_FAILED[1], NOT_INITIALIZED[1],
    TRANSCRIPTION_FAILED[1] }

\* C18 (as claimed): every transcribeAudio call that has failed has failed
\* with an error of the taxonomy.
C18_OnlyTaxonomyErrors ==
  \A p \in Procs :
    (req[p].op = "transcribeAudio" /\ Done(p) /\ sig[p] = "err")
    => val[p].msg[1] \in Taxonomy

\* ------------------------------------------------ the client gateway
GwEvents(kind) == SelectSeq(gw.log, LAMBDA ev : ev.e = kind)

\* C19: every fetch after the first was issued after the previous fetch threw
\* (and its backoff); an HTTP response, whatever its status, is the last thing
\* that happens in the call: it is what fetchWithRetry returned, no fetch
\* follows it, and transcribeAudioFile has settled on it.
C19_RetryOnlyAfterThrow ==
  /\ \A k \in 1..Len(gw.log) :
       LET ev == gw.log[k]
       IN  /\ (ev.e = "fetch" /\ k > 1) =>
                /\ k > 2
                /\ gw.log[k-1].e = "wait" /\ gw.log[k-2].e = "threw"
                /\ gw.log[k-2].attempt = ev.attempt - 1
           /\ ev.e = "response" =>
                /\ k = Len(gw.log)
                /\ gw.phase = "returned"
                /\ gw.outcome.kind = "response"
                /\ ToString(gw.outcome.status) = ev.what
                /\ gw.caller.kind =
                     (IF ev.what = "200" THEN "returned" ELSE "threw")
  /\ Len(GwEvents("response")) <= 1

\* C19 witness: the first fetch threw, the second was answered with status
\* 500, which was returned to the caller.
C19_Witness ==
  /\ Len(gw.log) = 5
  /\ gw.log[2].e = "threw" /\ gw.log[4].e = "fetch"
  /\ gw.log[5].e = "response" /\ gw.log[5].what = "500"
  /\ gw.phase = "returned" /\ gw.caller.kind = "threw"

\* At most retryAttempts fetches; the k-th retry starts 2^k seconds or more
\* after the k-th failure; after the last failure the call has thrown that
\* failure's error and has not waited again.
GwBoundedBackoff ==
  LET fetches == GwEvents("fetch")
      threws  == GwEvents("threw")
      waits   == GwEvents("wait")
  IN  /\ Len(fetches) <= 3
      /\ \A k \in 1..Len(fetches) : fetches[k].attempt = k
      /\ \A k \in 2..Len(fetches) :
           /\ Len(threws) >= k - 1
           /\ fetches[k].at >= threws[k-1].at + Pow2(k - 1) * 1000
      /\ Len(waits) <= 2
      /\ gw.phase = "backoff" => gw.due = threws[Len(threws)].at
                                          + Pow2(Len(threws)) * 1000
      /\ gw.phase = "thrown" =>
           /\ Len(fetches) = 3 /\ Len(threws) = 3 /\ Len(waits) = 2
           /\ gw.log[Len(gw.log)].e = "threw"
           /\ gw.outcome.kind = "error"
           /\ gw.outcome.error.name = threws[3].what

\* C20: fetchWithRetry makes at most three attempts with waits of 2 s and
\* 4 s between them, rethrows the last failure without waiting again, and
\* every call terminates: it returns a response or throws.
C20_BoundedBackoffTerminates ==
  /\ []GwBoundedBackoff
  /\ (gw.phase \in {"fetching", "backoff"})
       ~> (gw.phase \in {"returned", "thrown"})

\* C20 witness: three fetches failed (the last by the abort timer), the waits
\* were 2 s and 4 s, and the call has thrown.
C20_Witness ==
  /\ gw.phase = "thrown"
  /\ Len(GwEvents("fetch")) = 3
  /\ GwEvents("wait") # << >>
  /\ gw.outcome.error = AbortError
  /\ now >= 6000 + timeout

\* p's recognizer call has just been rejected in this step.
RemoteFailure(p) == req[p].remote.ok /\ ~req'[p].remote.ok

\* C21: a transcribeAudio call hands at most one request to the recognizer;
\* the step in which the recognizer's rejection arrives ends the call with an
\* error and changes neither the service (initialized, speechClient) nor the
\* credential manager, and starts no handshake and no refresh.
C21_NoRetryNoRefresh ==
  [][\A p \in Procs :
       req'[p].op = "transcribeAudio" =>
         /\ Len(req'[p].sent) <= 1
         /\ RemoteFailure(p) =>
              /\ stack'[p] = << >> /\ sig'[p] = "err"
              /\ svc' = svc /\ wim' = wim
              /\ g'.getClientCalls = g.getClientCalls
              /\ g'.refreshCalled = g.refreshCalled
              /\ requestCount' = requestCount]_vars

\* C21 witness: the recognizer answered unauthenticated, the call has failed
\* with authentication-failed after its single recognizer request, and the
\* service is still initialized with its speech client.
C21_Witness ==
  /\ req[1].op = "transcribeAudio" /\ Done(1)
  /\ req[1].remote.code = 16 /\ ~req[1].remote.ok
  /\ Len(req[1].sent) = 1
  /\ val[1] = Err(0, AUTHENTICATION_FAILED)
  /\ svc.initialized /\ svc.speechClient # Null

\* C22: a transcribeAudio call whose recognizer response had no results (the
\* list missing or empty) has returned success with an empty transcription,
\* confidence 0 and no alternatives and word details.
C22_EmptyResponseIsSuccess ==
  \A p \in Procs :
    (req[p].op = "transcribeAudio" /\ req[p].heard = << "no results" >>)
    => /\ Done(p) /\ sig[p] = "ok"
       /\ val[p].ok
       /\ val[p].v.success
       /\ val[p].v.transcription = ""
       /\ val[p].v.confidence = 0
       /\ val[p].v.alternatives = << >>
       /\ val[p].v.wordDetails = << >>

\* C22 witness: a call has returned on a response without results.
C22_Witness ==
  /\ req[1].op = "transcribeAudio" /\ Done(1) /\ sig[1] = "ok"
  /\ req[1].heard = << "no results" >>
  /\ val[1].v.transcription = ""

\* The mapping of the specification.
RefEncoding(fmt) ==
  CASE toLowerCase(fmt) = "webm" -> "WEBM_OPUS"
    [] toLowerCase(fmt) = "wav"  -> "LINEAR16"
    [] toLowerCase(fmt) = "mp3"  -> "MP3"
    [] toLowerCase(fmt) = "ogg"  -> "OGG_OPUS"
    [] OTHER -> "WEBM_OPUS"

\* C23 (as claimed): getEncodingConfig returns, for every format string, the
\* encoding of the mapping, WEBM_OPUS for every string outside the four.
C23_EncodingMapping ==
  \A p \in Procs :
    (req[p].op = "getEncodingConfig" /\ Done(p))
    => (sig[p] = "ok" /\ val[p] = Ok(RefEncoding(req[p].fmt)))

\* Some other caller's initialize() is in progress.
InitializeInProgress(p) ==
  \E q \in Procs : q # p /\ req[q].op \in InitOps /\ stack[q] # << >>

\* C24 (as claimed): an accessor called while another caller's initialize()
\* is in progress and no liveness probe has succeeded yet fails at once with
\* the not-initialized error.
C24_AccessorsDuringInitialize ==
  [][\A p \in Procs :
       ( /\ g'.calls = g.calls + 1 /\ g'.caller = p
         /\ req'[p].op \in Accessors
         /\ InitializeInProgress(p) /\ ~g.probeOk )
       => /\ stack'[p] = << >>
          /\ sig'[p] = "err"
          /\ val'[p].msg = NOT_INITIALIZED]_vars

\* p has just called refreshAuthentication in this step.
RefreshCalled(p) ==
  /\ g'.calls = g.calls + 1 /\ g'.caller = p
  /\ req'[p].op = "refreshAuthentication"

\* C25 (as claimed): from the step in which refreshAuthentication is called
\* on, the manager no longer holds the auth and the client it held before.
C25_RefreshDropsOldCredentials ==
  [][\A p \in Procs :
       RefreshCalled(p) =>
         /\ wim.auth # Null => wim'.auth # wim.auth
         /\ wim.client # Null => wim'.client # wim.client]_vars

\* p's call is a transcribeLongAudio above the threshold (after the step).
ChunkedAfter(p) ==
  req'[p].op = "transcribeLongAudio" /\ req'[p].audioLength > maxChunkSize

\* C26: while transcribeLongAudio works on a buffer above the threshold, a
\* rate-limit check is made and recorded under the key of the current chunk
\* only; the caller's base key and every other chunk key keep their history,
\* and a chunk is rejected only when its own key has rateLimitPerMinute
\* accepted requests in the last minute.
C26_ChunkKeysAreIndependent ==
  [][ChunkedAfter(1) =>
       LET k == ChunkKey(req'[1].clientId, req'[1].i)
       IN  /\ \A j \in Keys \ {k} :
                /\ MapGet(requestCount', j) = MapGet(requestCount, j)
                /\ accepted'[j] = accepted[j]
                /\ rejects'[j] = rejects[j]
           /\ lastCheck'.n # lastCheck.n =>
                /\ lastCheck'.key = k
                /\ lastCheck'.ok <=>
                     InWindow(accepted[k], now', 60000) < rateLimitPerMinute]_vars

\* C26 witness: the caller's base key holds rateLimitPerMinute requests of the
\* last minute, and chunk 1 of a long request of the same caller has just been
\* accepted under its own key.
C26_Witness ==
  /\ req[1].op = "transcribeLongAudio" /\ req[1].audioLength > maxChunkSize
  /\ req[1].clientId = "a" /\ req[1].i = 1
  /\ Len(MapGet(requestCount, "a")) = rateLimitPerMinute
  /\ InWindow(MapGet(requestCount, "a"), now, 60000) = rateLimitPerMinute
  /\ lastCheck.ok /\ lastCheck.key = "a_chunk_1" /\ lastCheck.at = now
  /\ stack[1] = <<"tl_chunk", "tr_recognize">>

\* The stored history of key k, read from the map directly.
StoredHistory(k) == IF k \in DOMAIN requestCount THEN requestCount[k] ELSE << >>

\* C27: a call checkRateLimit(A), accepted or rejected, leaves the entry of
\* every other caller B as it was (present or absent, same instants), and its
\* outcome is a function of A's own stored history and the time alone.
C27_CrossCallerIndependence ==
  [][lastCheck'.n = lastCheck.n + 1 =>
       LET A == lastCheck'.key
       IN  /\ \A B \in Keys \ {A} :
                /\ B \in DOMAIN requestCount' <=> B \in DOMAIN requestCount
                /\ B \in DOMAIN requestCount => requestCount'[B] = requestCount[B]
           /\ lastCheck'.ok <=>
                /\ InWindow(StoredHistory(A), now, 60000) < rateLimitPerMinute
                /\ InWindow(StoredHistory(A), now, 3600000) < rateLimitPerHour]_vars

\* C27 witness: caller "a" has just been accepted at an instant at which the
\* other caller's history is full, and that history is still in place.
C27_Witness ==
  /\ lastCheck.n > 0 /\ lastCheck.ok /\ lastCheck.key = "a" /\ lastCheck.at = now
  /\ StoredHistory("a") = <<now>>
  /\ Len(StoredHistory("default")) = rateLimitPerMinute
  /\ InWindow(StoredHistory("default"), now, 60000) = rateLimitPerMinute
  /\ rejects["default"] > 0

\* C28: right after checkRateLimit accepted a request of caller c at the
\* instant `at`, every instant t stored for c satisfies at - t < 60000.
C28_AcceptedHistoryInsideWindow ==
  (lastCheck.n > 0 /\ lastCheck.ok) =>
    \A idx \in 1..Len(StoredHistory(lastCheck.key)) :
      lastCheck.at - StoredHistory(lastCheck.key)[idx] < 60000

\* C28 witness: an accepted check has pruned an earlier accepted instant of
\* the same caller that had become 60 s old.
C28_Witness ==
  /\ lastCheck.n > 0 /\ lastCheck.ok
  /\ \E idx \in 1..Len(accepted[lastCheck.key]) :
       lastCheck.at - accepted[lastCheck.key][idx] >= 60000
  /\ Len(StoredHistory(lastCheck.key)) < Len(accepted[lastCheck.key])
  /\ StoredHistory(lastCheck.key)[Len(StoredHistory(lastCheck.key))] = lastCheck.at

\* C29: the chunks transcribeLongAudio cuts a buffer above the threshold into
\* are consecutive byte ranges that start at 0 and end at the buffer's end:
\* every chunk but the last has maxChunkSize bytes, the last has between 1 and
\* maxChunkSize bytes, and the buffers handed to the recognizer are these
\* chunks in index order.
C29_ChunksPartitionTheBuffer ==
  \A p \in Procs :
    Chunked(p) =>
      LET len == req[p].audioLength
          c   == Chunks(len)
          n   == Len(c)
      IN  /\ n >= 2
          /\ c[1].from = 0 /\ c[n].to = len
          /\ \A k \in 1..(n - 1) :
               /\ c[k].to = c[k + 1].from
               /\ c[k].to - c[k].from = maxChunkSize
          /\ c[n].to - c[n].from \in 1..maxChunkSize
          /\ Len(req[p].sent) <= n
          /\ \A k \in 1..Len(req[p].sent) :
               req[p].sent[k] = c[k].to - c[k].from

\* C29 witness: a buffer of 10 MiB + 1 byte went to the recognizer as two
\* chunks of maxChunkSize bytes and a last chunk of 2 MiB + 1 byte.
C29_Witness ==
  \E p \in Procs :
    /\ Chunked(p) /\ Done(p) /\ sig[p] = "ok"
    /\ req[p].audioLength = 10485761
    /\ req[p].sent = <<4194304, 4194304, 2097153>>

\* The sum of a sequence of numbers.
RECURSIVE Total(_)
Total(s) == IF s = << >> THEN 0 ELSE s[1] + Total(Tail(s))

\* C30: the result of a transcribeLongAudio above the threshold carries, as
\* confidence, the sum of the confidences of the results transcribeAudio
\* returned for the chunks divided by the number of chunks (chunks without
\* text included), and as processingTime the sum of their processingTime.
C30_MeanConfidenceAndTotalTime ==
  \A p \in Procs :
    (Chunked(p) /\ Done(p) /\ sig[p] = "ok") =>
      LET r == req[p].returned
      IN  /\ Len(r) = CeilDiv(req[p].audioLength, maxChunkSize)
          /\ val[p].v.confidence =
               [sum |-> Total([k \in 1..Len(r) |-> r[k].confidence]),
                n   |-> Len(r)]
          /\ val[p].v.processingTime =
               Total([k \in 1..Len(r) |-> r[k].processingTime])

\* C30 witness: a long request returned whose chunks took different, non-zero
\* times and of which one produced no text and another did.
C30_Witness ==
  \E p \in Procs :
    /\ Chunked(p) /\ Done(p) /\ sig[p] = "ok"
    /\ \E j, k \in 1..Len(req[p].returned) :
         /\ req[p].returned[j].transcription = ""
         /\ req[p].returned[k].transcription # ""
         /\ req[p].returned[k].confidence > 0
         /\ req[p].returned[j].processingTime > 0
         /\ req[p].returned[j].processingTime # req[p].returned[k].processingTime
    /\ val[p].v.confidence.n = Len(req[p].returned)
    /\ val[p].v.processingTime > 0

RouteOps == {"Route_transcribe", "Route_transcribeBase64"}

\* C31 (as claimed): when the service failed a request of a transcription
\* endpoint with the unsupported-format error (the validator's or the mapped
\* remote invalid-argument), the endpoint answers with a 4xx status.
C31_UnsupportedFormatIs4xx ==
  \A p \in Procs :
    ( /\ req[p].op \in RouteOps /\ Done(p)
      /\ ~req[p].threw.ok /\ req[p].threw.msg = UNSUPPORTED_FORMAT )
    => req[p].res.status \in 400..499

\* The health endpoint answers caller p in this step.
HealthAnswered(p) ==
  /\ req'[p].op = "Route_health"
  /\ stack[p] # << >> /\ stack'[p] = << >> /\ req'[p].res.status # 0

\* The sum of the lengths of the stored histories.
RECURSIVE StoredTotal(_)
StoredTotal(keys) ==
  IF keys = {} THEN 0
  ELSE LET k == CHOOSE x \in keys : TRUE
       IN  Len(StoredHistory(k)) + StoredTotal(keys \ {k})

\* The counters of a health answer are those of the rate limiter at the
\* moment of the answer.
HealthCounters(p) ==
  LET stats == req'[p].res.body.stats
  IN  /\ stats.activeClients = Cardinality(DOMAIN requestCount)
      /\ stats.totalRequests = StoredTotal(DOMAIN requestCount)

\* C32 (as claimed): every answer of the health endpoint, also one given
\* while the service is not initialized, carries a boolean initialized and a
\* boolean authenticated, and the rate limiter's counters.
C32_HealthExposesState ==
  [][\A p \in Procs :
       HealthAnswered(p) =>
         LET body == req'[p].res.body
         IN  /\ "initialized" \in DOMAIN body /\ body.initialized \in BOOLEAN
             /\ "authenticated" \in DOMAIN body /\ body.authenticated \in BOOLEAN
             /\ HealthCounters(p)]_vars

\* p has just called isAuthenticated() in this step.
IsAuthenticatedCalled(p) ==
  /\ req'[p].op = "isAuthenticated" /\ g'.caller = p
  /\ <<req[p], val[p], sig[p]>> # <<req'[p], val'[p], sig'[p]>>

\* C33: whatever initialize (also a failing one) and refreshAuthentication
\* did, initialized = true implies client # null; so isAuthenticated()
\* returns the value of initialized, and it changes nothing in the manager.
C33_InitializedImpliesClient ==
  [][/\ wim'.initialized => wim'.client # Null
     /\ \A p \in Procs :
          IsAuthenticatedCalled(p) =>
            /\ val'[p] = Ok(wim.initialized)
            /\ wim' = wim /\ svc' = svc /\ requestCount' = requestCount]_vars

\* C33 witness: after a failed initialize and a refreshAuthentication the
\* manager is initialized again with a client, and isAuthenticated() has just
\* answered true.
C33_Witness ==
  \E p \in Procs :
    /\ req[p].op = "isAuthenticated" /\ Done(p) /\ val[p] = Ok(TRUE)
    /\ wim.initialized /\ wim.client # Null
    /\ g.refreshCalled /\ g.anyFailure

\* C34 (as claimed): the service is marked initialized only when a liveness
\* probe of the credential manager has succeeded.
C34_ServiceReadyOnlyAfterProbe ==
  svc.initialized => g.probeOk

\* C35 (as claimed): the getAccessToken() call of the liveness probe never
\* re-enters initialize(): no call chain is suspended in an initialize() that
\* was started from the probe of an initialize().
C35_ProbeDoesNotReenterInitialize ==
  \A p \in Procs :
    \A k \in 1..(Len(stack[p]) - 1) :
      ~(stack[p][k] = "ta_getToken" /\ stack[p][k + 1] = "gat_init")

\* C36: the history checkRateLimit stores for a caller never holds more than
\* rateLimitPerMinute instants, and neither does the history the rateLimit
\* middleware stores for an IP.
C36_StoredHistoriesAreBounded ==
  /\ \A k \in DOMAIN requestCount : Len(requestCount[k]) <= rateLimitPerMinute
  /\ \A ip \in DOMAIN rateLimitMap : Len(rateLimitMap[ip]) <= rateLimitPerMinute

\* C36 witness: both limiters hold a full history, each has rejected a
\* request, and the middleware has pruned an instant that was 60 s old.
C36_Witness ==
  /\ \E k \in DOMAIN requestCount :
       Len(requestCount[k]) = rateLimitPerMinute /\ rejects[k] > 0
  /\ "a" \in DOMAIN rateLimitMap
  /\ Len(rateLimitMap["a"]) = rateLimitPerMinute
  /\ rateLimitMap["a"][1] > 0
  /\ \E p \in Procs : req[p].op = "Route_transcribeBase64" /\ req[p].res.status = 429

\* C37: a transcribeAudio call that the validator rejected has left the
\* requestCount map as it was: in the step that rejects it, and as long as
\* the rejected call is the caller's latest, no rate-limit check is made and
\* no instant is stored.
C37_InvalidRequestTakesNoSlot ==
  [][\A p \in Procs :
       (req'[p].op = "transcribeAudio" /\ req'[p].rejectedBy = "validator")
       => /\ requestCount' = requestCount
          /\ lastCheck' = lastCheck
          /\ accepted' = accepted]_vars

\* C37 witness: a request with an unsupported format was rejected by the
\* validator on an initialized service while its caller still had a free
\* slot, and the caller's history is the one accepted request made before.
C37_Witness ==
  \E p \in Procs :
    /\ req[p].op = "transcribeAudio" /\ req[p].rejectedBy = "validator"
    /\ Done(p) /\ sig[p] = "err"
    /\ svc.initialized
    /\ lastCheck.n = 1 /\ lastCheck.ok
    /\ StoredHistory(lastCheck.key) = <<lastCheck.at>>
    /\ lastCheck.key = ClientKey(req[p].clientId)

\* C38: once a transcribeAudio call has been handed to the recognizer, the
\* instant the rate limiter admitted it at is the latest instant stored for
\* its caller, and it stays stored when the recognizer rejects the call.
C38_AdmittedRequestStaysRecorded ==
  \A p \in Procs :
    (req[p].op = "transcribeAudio" /\ req[p].sent # << >>)
    => LET k == ClientKey(req[p].clientId)
           h == StoredHistory(k)
       IN  /\ lastCheck.ok /\ lastCheck.key = k
           /\ h # << >> /\ h[Len(h)] = lastCheck.at
           /\ accepted[k] # << >>
           /\ accepted[k][Len(accepted[k])] = lastCheck.at

\* C38 witness: the recognizer rejected a request, the request has failed,
\* and its instant is still the latest in the caller's stored history.
C38_Witness ==
  \E p \in Procs :
    /\ req[p].op = "transcribeAudio" /\ req[p].sent # << >>
    /\ Done(p) /\ sig[p] = "err" /\ ~req[p].remote.ok
    /\ Len(StoredHistory(ClientKey(req[p].clientId))) = rateLimitPerMinute
    /\ StoredHistory(ClientKey(req[p].clientId))[rateLimitPerMinute] = lastCheck.at

\* C39 (as claimed): whenever isProcessing is true it becomes false again,
\* with nothing required of the user: pending promises settling is enough.
C39_ProcessingEventuallyEnds ==
  hook.isProcessing ~> ~hook.isProcessing

\* C40 (as claimed): the transcript, confidence and processingTime of a
\* recording are the placeholder values or the result for its own audio.
C40_ResultGoesToItsRecording ==
  \A k \in 1..Len(hook.recordings) :
    LET rec == hook.recordings[k]
    IN  \/ /\ rec.transcript = PLACEHOLDER
           /\ rec.confidence = 0 /\ rec.processingTime = 0
        \/ /\ rec.transcript = STTResult(k).transcription
           /\ rec.confidence = STTResult(k).confidence
           /\ rec.processingTime = STTResult(k).processingTime

====
